---- MODULE Spec2Model ----
(***************************************************************************)
(* Model of the price-calculator bot: the text parser (parser.py), the     *)
(* classifier and calculation helpers (excel_builder.py) and the chat      *)
(* handlers that own the in-memory registry (bot.py).                      *)
(*                                                                         *)
(* A Python str is a sequence of one-character strings.  An optional value *)
(* is a sequence of length at most one: None is << >>, a present value v   *)
(* is <<v>>.  A decimal number is a record [m, e] standing for m / 10^e.   *)
(***************************************************************************)
EXTENDS Integers, Sequences, FiniteSets, TLC

None == << >>

Some(v) == <<v>>

\* Python's `x or ""` for an optional str.
OrEmpty(opt) == IF opt = None THEN << >> ELSE opt[1]

----------------------------------------------------------------------------
(* str methods used by the source *)

UPPER == <<"A","B","C","D","E","F","G","H","I","J","K","L","M",
           "N","O","P","Q","R","S","T","U","V","W","X","Y","Z">>

LOWER == <<"a","b","c","d","e","f","g","h","i","j","k","l","m",
           "n","o","p","q","r","s","t","u","v","w","x","y","z">>

DIGITS == <<"0","1","2","3","4","5","6","7","8","9">>

lower_char(c) ==
    IF \E i \in 1..Len(UPPER) : UPPER[i] = c
    THEN LOWER[CHOOSE i \in 1..Len(UPPER) : UPPER[i] = c]
    ELSE c

\* str.lower()
lower(s) == SubSeq([i \in 1..Len(s) |-> lower_char(s[i])], 1, Len(s))

IsSpace(c) == c \in {" ", "\t", "\n", "\r"}

\* str.lstrip()
lstrip(s) ==
    LET keep == {i \in 1..Len(s) : ~IsSpace(s[i])}
    IN  IF keep = {} THEN << >>
        ELSE SubSeq(s, CHOOSE i \in keep : \A k \in keep : i <= k, Len(s))

\* str.rstrip()
rstrip(s) ==
    LET keep == {i \in 1..Len(s) : ~IsSpace(s[i])}
    IN  IF keep = {} THEN << >>
        ELSE SubSeq(s, 1, CHOOSE i \in keep : \A k \in keep : i >= k)

\* str.strip()
strip(s) == rstrip(lstrip(s))

\* s[i..] starts with p
StartsAt(s, i, p) ==
    /\ i + Len(p) - 1 <= Len(s)
    /\ \A j \in 1..Len(p) : s[i + j - 1] = p[j]

\* Python's `sub in s`
contains(s, sub) == \E i \in 1..(Len(s) + 1) : StartsAt(s, i, sub)

\* str.split(sep): cut at the non-overlapping occurrences of sep, taken
\* left to right from position start
RECURSIVE split_from(_, _, _)
split_from(s, sep, start) ==
    LET occ == {i \in start..Len(s) : StartsAt(s, i, sep)}
    IN  IF occ = {} THEN <<SubSeq(s, start, Len(s))>>
        ELSE LET i == CHOOSE j \in occ : \A k \in occ : j <= k
             IN  <<SubSeq(s, start, i - 1)>> \o split_from(s, sep, i + Len(sep))

split(s, sep) == split_from(s, sep, 1)

\* str.splitlines(): lines end at "\n"; no empty last line after a final "\n"
splitlines(s) ==
    LET parts == split(s, <<"\n">>)
    IN  IF parts[Len(parts)] = << >> THEN SubSeq(parts, 1, Len(parts) - 1) ELSE parts

\* " ".join(words)
RECURSIVE join_space(_)
join_space(words) ==
    IF words = << >> THEN << >>
    ELSE IF Len(words) = 1 THEN words[1]
    ELSE words[1] \o <<" ">> \o join_space(Tail(words))

----------------------------------------------------------------------------
(* parser.py *)

\* the regex token \s* inside a key pattern; every other token is a literal
WS == "\\s*"

\* re.match of a token sequence at the start of s under re.IGNORECASE: the
\* text left after the match, or None.  \s* is greedy; no literal that
\* follows it in these patterns is white space, so nothing backtracks.
RECURSIVE match_tokens(_, _)
match_tokens(s, toks) ==
    IF toks = << >> THEN Some(s)
    ELSE IF Head(toks) = WS THEN match_tokens(lstrip(s), Tail(toks))
    ELSE IF s # << >> /\ lower_char(Head(s)) = lower_char(Head(toks))
         THEN match_tokens(Tail(s), Tail(toks))
         ELSE None

\* rf"^\s*({key})\s*:\s*(.*)$" for one alternative of the key pattern:
\* group 2, or None when the line does not match
match_label(line, key) == match_tokens(line, <<WS>> \o key \o <<WS, ":", WS>>)

\* the alternatives of key_pattern, tried left to right
RECURSIVE match_any(_, _)
match_any(line, keys) ==
    IF keys = << >> THEN None
    ELSE IF match_label(line, Head(keys)) # None THEN match_label(line, Head(keys))
    ELSE match_any(line, Tail(keys))

RECURSIVE extract_from_lines(_, _)
extract_from_lines(lines, keys) ==
    IF lines = << >> THEN None
    ELSE LET m == match_any(Head(lines), keys)
         IN  IF m # None
             THEN (IF strip(m[1]) # << >> THEN Some(strip(m[1])) ELSE None)
             ELSE extract_from_lines(Tail(lines), keys)

\* _extract_value(text, key_pattern); keys lists the pattern's alternatives
_extract_value(text, keys) == extract_from_lines(splitlines(text), keys)

IsDigit(c) == \E i \in 1..Len(DIGITS) : DIGITS[i] = c

DigitVal(c) == (CHOOSE i \in 1..Len(DIGITS) : DIGITS[i] = c) - 1

\* the integer written by a string of digits ("" is 0)
RECURSIVE DigitsToInt(_)
DigitsToInt(ds) ==
    IF ds = << >> THEN 0
    ELSE 10 * DigitsToInt(SubSeq(ds, 1, Len(ds) - 1)) + DigitVal(ds[Len(ds)])

RECURSIVE Pow10(_)
Pow10(n) == IF n <= 0 THEN 1 ELSE 10 * Pow10(n - 1)

\* a decimal m / 10^e without trailing zeros in its fraction, so that equal
\* numbers are equal records
RECURSIVE Dec(_, _)
Dec(m, e) ==
    IF e > 0 /\ m % 10 = 0 THEN Dec(m \div 10, e - 1) ELSE [m |-> m, e |-> e]

\* float(v) for a string of digits, "." and "-": the number, or None where
\* Python raises ValueError
float_of(v) ==
    LET neg  == v # << >> /\ Head(v) = "-"
        body == IF neg THEN Tail(v) ELSE v
        dots == {i \in 1..Len(body) : body[i] = "."}
        dot  == IF dots = {} THEN Len(body) + 1 ELSE CHOOSE i \in dots : TRUE
        ip   == SubSeq(body, 1, dot - 1)
        fp   == SubSeq(body, dot + 1, Len(body))
    IN  IF \/ \E i \in 1..Len(body) : body[i] = "-"
           \/ Cardinality(dots) > 1
           \/ Len(ip) + Len(fp) = 0
        THEN None
        ELSE Some(Dec((IF neg THEN -1 ELSE 1) * DigitsToInt(ip \o fp), Len(fp)))

\* num_or_none(value)
num_or_none(value) ==
    IF value = None \/ value = Some(<< >>) THEN None
    ELSE LET v0 == strip(value[1])
             v1 == [i \in 1..Len(v0) |-> IF v0[i] = "," THEN "." ELSE v0[i]]
             IsNumChar(c) == IsDigit(c) \/ c = "." \/ c = "-"
             v  == SelectSeq(v1, IsNumChar)
         IN  IF v \in {<< >>, <<"-">>, <<".">>, <<"-",".">>, <<".","-">>}
             THEN None
             ELSE float_of(v)

\* int(x) of a float: truncation toward zero
int_of(d) ==
    IF d.m >= 0 THEN d.m \div Pow10(d.e) ELSE -((-d.m) \div Pow10(d.e))

\* dateutil's parse(raw, dayfirst=True).date() on the two shapes of date text
\* the messages below use: "D.M.YYYY" in digits gives that calendar day (as
\* the number YYYYMMDD, ordered as dates are); a word that is no date raises
\* ParserError, which parse_message turns into None.
dateparser_parse(raw) ==
    LET parts == split(raw, <<".">>)
        AllDigits(p) == p # << >> /\ \A i \in 1..Len(p) : IsDigit(p[i])
    IN  IF Len(parts) = 3 /\ \A k \in 1..3 : AllDigits(parts[k])
        THEN LET d == DigitsToInt(parts[1])
                 m == DigitsToInt(parts[2])
                 y == DigitsToInt(parts[3])
             IN  IF d \in 1..31 /\ m \in 1..12 THEN Some(y * 10000 + m * 100 + d) ELSE None
        ELSE None

\* the key pattern of every _extract_value(text, ...) in parse_message, each
\* the list of its alternatives, under the name its value is kept by
key_pattern ==
    [ date_raw          |-> <<<<"D","a","t","e">>>>,
      address           |-> <<<<"A","d","d","r","e","s","s","s">>, <<"A","d","d","r","e","s","s">>>>,
      outlet_type       |-> <<<<"O","u","t","l","e","t","-","T","y","p","e">>>>,
      category          |-> <<<<"C","a","t","e","g","o","r","y">>>>,
      sub_category      |-> <<<<"S","u","b","-","C","a","t","e","g","o","r","y">>>>,
      brand             |-> <<<<"B","r","a","n","d">>>>,
      packaging         |-> <<<<"P","a","c","k","a","g","i","n","g">>>>,
      size_raw          |-> <<<<"S","i","z","e">>>>,
      packs_raw         |-> <<<<"P","a","c","k","s">>>>,
      weight_raw        |-> <<<<"W","e","i","g","h","t"," ","p","e","r"," ","C","t","n">>>>,
      buy_in            |-> <<<<"B","u","y","-","i","n">>>>,
      scheme_base_raw   |-> <<<<"S","c","h","e","m","e","(","b","a","s","e",")">>, <<"S","c","h","e","m","e","(","B","a","s","e",")">>, <<"S","c","h","e","m","e">>>>,
      foc_raw           |-> <<<<"F","O","C">>>>,
      discount_pct      |-> <<<<"D","i","s","c","o","u","n","t","(","%",")">>>>,
      discount_value    |-> <<<<"D","i","s","c","o","u","n","t","(","$",")">>>>,
      direct_disc_pct   |-> <<<<"D","i","r","e","c","t"," ","D","i","s","c",".","(","%",")">>>>,
      direct_disc_value |-> <<<<"D","i","r","e","c","t"," ","D","i","s","c","(","$",")">>>>,
      mark_up           |-> <<<<"M","a","r","k">> \o <<WS, "-", WS>> \o <<"u","p">>, <<"M","a","r","k">> \o <<WS>> \o <<"u","p">>>>,
      sell_out_raw      |-> <<<<"S","e","l","l"," ","O","u","t"," ","(","$",")">>>>,
      price_unit_raw    |-> <<<<"P","r","i","c","e"," ","U","n","i","t">>>> ]

\* the dict d of parse_message, given the strings it extracts (raw) and
\* num_or_none of each (num)
parsed_dict(raw, num) ==
    [ date_raw          |-> raw.date_raw,
      date              |-> IF raw.date_raw # None THEN dateparser_parse(raw.date_raw[1])
                            ELSE None,
      address           |-> raw.address,
      outlet_type       |-> raw.outlet_type,
      category          |-> raw.category,
      sub_category      |-> raw.sub_category,
      brand             |-> raw.brand,
      packaging         |-> raw.packaging,
      size_raw          |-> raw.size_raw,
      packs_raw         |-> raw.packs_raw,
      weight_raw        |-> raw.weight_raw,
      size_ml           |-> num.size_raw,
      packs             |-> IF num.packs_raw # None THEN Some(int_of(num.packs_raw[1]))
                            ELSE None,
      weight_ctn_l      |-> num.weight_raw,
      buy_in            |-> num.buy_in,
      scheme_base_raw   |-> raw.scheme_base_raw,
      scheme_base       |-> num.scheme_base_raw,
      foc_raw           |-> raw.foc_raw,
      foc               |-> num.foc_raw,
      discount_pct      |-> num.discount_pct,
      discount_value    |-> num.discount_value,
      direct_disc_pct   |-> num.direct_disc_pct,
      direct_disc_value |-> num.direct_disc_value,
      mark_up           |-> num.mark_up,
      sell_out_usd      |-> num.sell_out_raw,
      price_unit_khr    |-> num.price_unit_raw,
      exchange_rate     |-> None ]

\* num_or_none of the extracted strings
extracted(raw) == parsed_dict(raw, [k \in DOMAIN raw |-> num_or_none(raw[k])])

\* parse_message(text)
parse_message(text) ==
    extracted([k \in DOMAIN key_pattern |-> _extract_value(text, key_pattern[k])])

----------------------------------------------------------------------------
(* excel_builder.py *)

\* config.EXCHANGE_RATE_DEFAULT; config.py is not among the sources, and the
\* value only fills the "Exchange Rate" cell of a row
EXCHANGE_RATE_DEFAULT == 4100

\* floor(a / b) for b > 0
FloorDiv(a, b) == IF a >= 0 THEN a \div b ELSE -(((-a) + b - 1) \div b)

\* Decimal remainder a % b: the sign of the dividend (unlike int's %)
DecRem(a, b) == IF a >= 0 THEN a % b ELSE -((-a) % b)

\* d.quantize(Decimal("0.01"), rounding=ROUND_FLOOR), in hundredths
quantize_floor(d) == FloorDiv(d.m * 100, Pow10(d.e))

\* d.quantize(Decimal("0.01"), rounding=ROUND_HALF_UP), in hundredths: to the
\* nearest, ties away from zero
quantize_half_up(d) ==
    LET mag == IF d.m >= 0 THEN d.m ELSE -d.m
        q   == (mag * 200 + Pow10(d.e)) \div (2 * Pow10(d.e))
    IN  IF d.m >= 0 THEN q ELSE -q

\* round2(x) for x that is not None
round2(x) ==
    LET scaled      == FloorDiv(x.m * 1000, Pow10(x.e))
        third_digit == DecRem(scaled, 10)
    IN  IF third_digit = 0 THEN Dec(quantize_floor(x), 2)
        ELSE IF third_digit >= 6 THEN Dec(quantize_half_up(x), 2)
        ELSE Dec(quantize_floor(x), 2)

\* int(round(x)): Python 3 rounds a float to the nearest integer, ties to even
int_round(x) ==
    LET p  == Pow10(x.e)
        fl == FloorDiv(x.m, p)
        r2 == 2 * (x.m - fl * p)
    IN  IF r2 < p THEN fl
        ELSE IF r2 > p THEN fl + 1
        ELSE IF fl % 2 = 0 THEN fl ELSE fl + 1

\* d.to_integral_value() for a Decimal d: no rounding is passed, so the
\* context's applies, and the default context rounds to the nearest integer,
\* ties to even
to_integral_value(d) == int_round(d)

\* round_weight(x) for x that is not None
round_weight(x) ==
    LET integer_part == to_integral_value(x)
        fractional   == Dec(x.m - integer_part * Pow10(x.e), x.e)
        first_digit  == to_integral_value(Dec(fractional.m * 10, fractional.e))
    IN  IF fractional.m = 0 THEN x
        ELSE IF first_digit >= 6 THEN Dec(integer_part + 1, 0)
        ELSE Dec(integer_part, 0)

\* size_is_gram(data)
size_is_gram(data) ==
    LET raw == lower(OrEmpty(data.size_raw))
    IN  contains(raw, <<"g">>) /\ ~contains(raw, <<"m","l">>)

\* size_is_ml(data)
size_is_ml(data) == contains(lower(OrEmpty(data.size_raw)), <<"m","l">>)

\* choose_sheet_name with the two detergent rules in the other order
choose_sheet_name_liquid_first(data) ==
    LET category == lower(strip(OrEmpty(data.category)))
        sub_cat  == lower(strip(OrEmpty(data.sub_category)))
    IN  IF category \in {<<"c","o","o","k","i","n","g"," ","o","i","l">>, <<"o","i","l">>, <<"p","a","l","m"," ","o","i","l">>, <<"v","e","g","e","t","a","b","l","e"," ","o","i","l">>,
                         <<"c","o","c","o","n","u","t"," ","o","i","l">>, <<"s","u","n","f","l","o","w","e","r"," ","o","i","l">>}
        THEN <<"O","i","l">>
        ELSE IF /\ category \in {<<"d","e","t","e","r","g","e","n","t">>, <<"l","i","q","u","i","d"," ","d","e","t","e","r","g","e","n","t">>, <<"l","a","u","n","d","r","y"," ","l","i","q","u","i","d">>}
                /\ sub_cat \in {<<"l","i","q","u","i","d">>, << >>}
             THEN <<"L","i","q","u","i","d"," ","D","e","t","e","r","g","e","n","t">>
        ELSE IF /\ category \in {<<"d","e","t","e","r","g","e","n","t">>, <<"p","o","w","d","e","r"," ","d","e","t","e","r","g","e","n","t">>, <<"w","a","s","h","i","n","g"," ","p","o","w","d","e","r">>}
                /\ sub_cat \in {<<"p","o","w","d","e","r">>, <<"p","o","w","d","e","r","e","d">>, << >>}
             THEN <<"P","o","w","d","e","r"," ","D","e","t","e","r","g","e","n","t">>
        ELSE IF category \in {<<"m","i","l","k">>, <<"d","a","i","r","y"," ","m","i","l","k">>, <<"f","r","e","s","h"," ","m","i","l","k">>, <<"e","v","a","p","o","r","a","t","e","d"," ","m","i","l","k">>,
                              <<"c","o","n","d","e","n","s","e","d"," ","m","i","l","k">>}
             THEN <<"M","i","l","k">>
        ELSE IF category \in {<<"d","i","s","h","w","a","s","h">>, <<"d","i","s","h"," ","w","a","s","h">>, <<"d","i","s","h","w","a","s","h","i","n","g"," ","l","i","q","u","i","d">>, <<"d","i","s","h","w","a","s","h","i","n","g">>}
             THEN <<"D","i","s","h","w","a","s","h">>
        ELSE IF category \in {<<"f","a","b","r","i","c"," ","s","o","f","t","e","n","e","r">>, <<"s","o","f","t","e","n","e","r">>, <<"f","a","b","r","i","c"," ","s","o","f","t","n","e","r">>}
             THEN <<"F","a","b","r","i","c"," ","S","o","f","t","e","n","e","r">>
        ELSE IF category \in {<<"e","c","o"," ","d","i","s","h","w","a","s","h">>, <<"e","c","o"," ","d","i","s","h","w","a","s","h","i","n","g">>, <<"e","c","o","-","d","i","s","h","w","a","s","h">>}
             THEN <<"E","c","o"," ","D","i","s","h","w","a","s","h">>
        ELSE IF category \in {<<"t","o","i","l","e","t">>, <<"t","o","i","l","e","t"," ","c","l","e","a","n","e","r">>, <<"t","o","i","l","e","t"," ","b","o","w","l"," ","c","l","e","a","n","e","r">>,
                              <<"w","c"," ","c","l","e","a","n","e","r">>, <<"t","o","i","l","e","t"," ","l","i","q","u","i","d">>}
             THEN <<"T","o","i","l","e","t">>
        ELSE <<"D","a","t","a">>

\* choose_sheet_name(data)
choose_sheet_name(data) ==
    LET category == lower(strip(OrEmpty(data.category)))
        sub_cat  == lower(strip(OrEmpty(data.sub_category)))
        oil_keywords == {<<"c","o","o","k","i","n","g"," ","o","i","l">>, <<"o","i","l">>, <<"p","a","l","m"," ","o","i","l">>, <<"v","e","g","e","t","a","b","l","e"," ","o","i","l">>,
                         <<"c","o","c","o","n","u","t"," ","o","i","l">>, <<"s","u","n","f","l","o","w","e","r"," ","o","i","l">>}
        milk_keywords == {<<"m","i","l","k">>, <<"d","a","i","r","y"," ","m","i","l","k">>, <<"f","r","e","s","h"," ","m","i","l","k">>, <<"e","v","a","p","o","r","a","t","e","d"," ","m","i","l","k">>,
                          <<"c","o","n","d","e","n","s","e","d"," ","m","i","l","k">>, <<"M","i","l","k">>}
        dishwash_keywords == {<<"d","i","s","h","w","a","s","h">>, <<"d","i","s","h"," ","w","a","s","h">>, <<"d","i","s","h","w","a","s","h","i","n","g"," ","l","i","q","u","i","d">>,
                              <<"D","i","s","h","w","a","s","h">>, <<"d","i","s","h","w","a","s","h","i","n","g">>}
        fabric_keywords == {<<"f","a","b","r","i","c"," ","s","o","f","t","e","n","e","r">>, <<"F","a","b","r","i","c"," ","s","o","f","t","e","n","e","r">>, <<"s","o","f","t","e","n","e","r">>,
                            <<"F","a","b","r","i","c"," ","S","o","f","t","e","n","e","r">>, <<"f","a","b","r","i","c"," ","s","o","f","t","n","e","r">>}
        eco_keywords == {<<"e","c","o"," ","d","i","s","h","w","a","s","h">>, <<"e","c","o"," ","d","i","s","h","w","a","s","h","i","n","g">>, <<"e","c","o","-","d","i","s","h","w","a","s","h">>,
                         <<"E","c","o"," ","d","i","s","h","w","a","s","h">>, <<"E","c","o"," ","D","i","s","h","w","a","s","h">>}
        toilet_keywords == {<<"t","o","i","l","e","t">>, <<"t","o","i","l","e","t"," ","c","l","e","a","n","e","r">>, <<"t","o","i","l","e","t"," ","b","o","w","l"," ","c","l","e","a","n","e","r">>,
                            <<"w","c"," ","c","l","e","a","n","e","r">>, <<"t","o","i","l","e","t"," ","l","i","q","u","i","d">>, <<"T","o","i","l","e","t">>}
    IN  IF category \in oil_keywords THEN <<"O","i","l">>
        ELSE IF /\ category \in {<<"d","e","t","e","r","g","e","n","t">>, <<"p","o","w","d","e","r"," ","d","e","t","e","r","g","e","n","t">>, <<"w","a","s","h","i","n","g"," ","p","o","w","d","e","r">>}
                /\ sub_cat \in {<<"p","o","w","d","e","r">>, <<"p","o","w","d","e","r","e","d">>, <<"P","o","w","d","e","r">>, << >>}
             THEN <<"P","o","w","d","e","r"," ","D","e","t","e","r","g","e","n","t">>
        ELSE IF /\ category \in {<<"d","e","t","e","r","g","e","n","t">>, <<"l","i","q","u","i","d"," ","d","e","t","e","r","g","e","n","t">>, <<"l","a","u","n","d","r","y"," ","l","i","q","u","i","d">>}
                /\ sub_cat \in {<<"l","i","q","u","i","d">>, <<"L","i","q","u","i","d">>, << >>}
             THEN <<"L","i","q","u","i","d"," ","D","e","t","e","r","g","e","n","t">>
        ELSE IF category \in milk_keywords THEN <<"M","i","l","k">>
        ELSE IF category \in dishwash_keywords THEN <<"D","i","s","h","w","a","s","h">>
        ELSE IF category \in fabric_keywords THEN <<"F","a","b","r","i","c"," ","S","o","f","t","e","n","e","r">>
        ELSE IF category \in eco_keywords THEN <<"E","c","o"," ","D","i","s","h","w","a","s","h">>
        ELSE IF category \in toilet_keywords THEN <<"T","o","i","l","e","t">>
        ELSE <<"D","a","t","a">>

\* the outcome of a call that may raise: the value returned, or the
\* exception's type and message
Return(v) == [raised |-> FALSE, type |-> "", msg |-> "", value |-> v]

Raise(type, msg) == [raised |-> TRUE, type |-> type, msg |-> msg, value |-> None]

Raised(r) == r.raised

\* calculate_fields(data): a new mapping, or the ValueError it raises
calculate_fields(data) ==
    LET buy_in   == data.buy_in
        mark_up  == IF data.mark_up = None \/ data.mark_up[1].m = 0
                    THEN Dec(0, 0) ELSE data.mark_up[1]
        size_val == IF data.size_ml = None \/ data.size_ml[1].m = 0
                    THEN Dec(0, 0) ELSE data.size_ml[1]
        direct_disc_decimal ==
            IF data.direct_disc_pct # None
            THEN LET r == round2(data.direct_disc_pct[1]) IN Dec(r.m, r.e + 2)
            ELSE Dec(0, 0)
    IN  IF buy_in = None THEN Raise("ValueError", "Buy-in is required")
        ELSE IF data.price_unit_khr = None
             THEN Raise("ValueError", "Price Unit (KHR) is required")
        ELSE Return([data EXCEPT
                !.size_ml         = Some(Dec(int_round(size_val), 0)),
                !.buy_in          = Some(round2(buy_in[1])),
                !.direct_disc_pct = Some(direct_disc_decimal),
                !.mark_up         = Some(round2(mark_up)),
                !.exchange_rate   = Some(Dec(EXCHANGE_RATE_DEFAULT, 0)),
                !.price_unit_khr  = Some(Dec(int_round(data.price_unit_khr[1]), 0))])

\* _row_from_data(data); the headers are spelt as identifiers
_row_from_data(data) ==
    [ Date           |-> data.date,
      Address        |-> data.address,
      Category       |-> data.category,
      Sub_Category   |-> data.sub_category,
      Brand          |-> data.brand,
      Packaging      |-> data.packaging,
      Size           |-> data.size_ml,
      Packs          |-> data.packs,
      Weight_per_Ctn |-> None,
      Buy_in         |-> data.buy_in,
      Scheme_base    |-> data.scheme_base,
      FOC            |-> data.foc,
      Discount_pct   |-> None,
      Discount_usd   |-> None,
      Direct_Disc_pct |-> data.direct_disc_pct,
      Direct_Disc_usd |-> None,
      Net_Buy_in     |-> None,
      Price_100_unit |-> None,
      PriceHeader    |-> IF size_is_gram(data) THEN <<"P","r","i","c","e"," ","/"," ","1","0","0","g">>
                         ELSE IF size_is_ml(data) THEN <<"P","r","i","c","e"," ","/"," ","1","0","0","m","l">>
                         ELSE <<"P","r","i","c","e"," ","/"," ","1","0","0"," ","u","n","i","t">>,
      Mark_up        |-> data.mark_up,
      Sell_Out_usd   |-> None,
      Exchange_Rate  |-> data.exchange_rate,
      Sell_Out_KHR   |-> None,
      Price_Unit_KHR |-> data.price_unit_khr,
      Margin_Unit_KHR |-> None,
      Price_Ctn_KHR  |-> None,
      Margin_Ctn_KHR |-> None,
      size_raw       |-> data.size_raw ]

----------------------------------------------------------------------------
(* The formula cells of a data row, as the spreadsheet program shows them.
   A cell is a number n/d in lowest terms or an error; an empty cell counts
   as 0 in arithmetic and in a comparison with 0, and an error in an operand
   is the result.  Arithmetic is exact. *)

RECURSIVE GCD(_, _)
GCD(a, b) == IF b = 0 THEN a ELSE GCD(b, a % b)

Abs(n) == IF n >= 0 THEN n ELSE -n

Num(n, d) ==
    LET g == GCD(Abs(n), d)
    IN  [error |-> "", n |-> (IF n >= 0 THEN n \div g ELSE -((-n) \div g)), d |-> d \div g]

DIV0 == [error |-> "#DIV/0!", n |-> 0, d |-> 1]

\* the number in a cell written from a row value, None being an empty cell
cell_number(v) == IF v = None THEN Num(0, 1) ELSE Num(v[1].m, Pow10(v[1].e))

\* the same for a row value that is an int
cell_int(v) == IF v = None THEN Num(0, 1) ELSE Num(v[1], 1)

Plus(a, b) ==
    IF a.error # "" THEN a ELSE IF b.error # "" THEN b
    ELSE Num(a.n * b.d + b.n * a.d, a.d * b.d)

Minus(a, b) ==
    IF a.error # "" THEN a ELSE IF b.error # "" THEN b
    ELSE Num(a.n * b.d - b.n * a.d, a.d * b.d)

Times(a, b) ==
    IF a.error # "" THEN a ELSE IF b.error # "" THEN b
    ELSE Num(a.n * b.n, a.d * b.d)

Divide(a, b) ==
    IF a.error # "" THEN a ELSE IF b.error # "" THEN b
    ELSE IF b.n = 0 THEN DIV0
    ELSE IF b.n > 0 THEN Num(a.n * b.d, a.d * b.n)
    ELSE Num(-(a.n * b.d), a.d * (-b.n))

\* ROUND(a, digits): to the nearest multiple of 10^-digits, a tie away from zero
ROUND(a, digits) ==
    IF a.error # "" THEN a
    ELSE LET p == Pow10(digits)
             q == (2 * Abs(a.n) * p + a.d) \div (2 * a.d)
         IN  Num(IF a.n >= 0 THEN q ELSE -q, p)

\* ROUNDUP(a, 0): to an integer, away from zero
ROUNDUP(a) ==
    IF a.error # "" THEN a
    ELSE LET q == (Abs(a.n) + a.d - 1) \div a.d
         IN  Num(IF a.n >= 0 THEN q ELSE -q, 1)

\* ROUNDDOWN(a, 0): to an integer, toward zero
ROUNDDOWN(a) ==
    IF a.error # "" THEN a
    ELSE LET q == Abs(a.n) \div a.d
         IN  Num(IF a.n >= 0 THEN q ELSE -q, 1)

\* MOD(a, 10) of an integer a: the result has the sign of the divisor
MOD10(a) == IF a.error # "" THEN a ELSE Num(a.n % 10, 1)

\* =IF(H=0,0,IF(MOD(ROUND(x*10,0),10)>=6,ROUNDUP(x,0),ROUNDDOWN(x,0))), the
\* "Weight per Ctn" formula, x being (H*I)/1000 or H*I
weight_formula(H, x) ==
    IF H.n = 0 THEN Num(0, 1)
    ELSE IF x.error # "" THEN x
    ELSE IF MOD10(ROUND(Times(x, Num(10, 1)), 0)).n >= 6 THEN ROUNDUP(x)
    ELSE ROUNDDOWN(x)

\* the cells of the columns R to AA, from the cells they refer to
cells_from_net(H, I, K, N, O, P, Q, R, T, V, X, J) ==
    LET HI == Times(H, I)
        U  == ROUND(Plus(R, T), 2)
        W  == ROUND(Times(U, V), 0)
        Z  == ROUND(Times(X, I), 0)
    IN  [ Size            |-> H,
          Packs           |-> I,
          Weight_per_Ctn  |-> J,
          Buy_in          |-> K,
          Discount_pct    |-> N,
          Discount_usd    |-> O,
          Direct_Disc_pct |-> P,
          Direct_Disc_usd |-> Q,
          Net_Buy_in      |-> R,
          Price_100_unit  |-> IF HI.n = 0 THEN Num(0, 1)
                              ELSE ROUND(Divide(R, Divide(HI, Num(100, 1))), 2),
          Mark_up         |-> T,
          Sell_Out_usd    |-> U,
          Exchange_Rate   |-> V,
          Sell_Out_KHR    |-> W,
          Price_Unit_KHR  |-> X,
          Margin_Unit_KHR |-> ROUND(Minus(X, Divide(W, I)), 0),
          Price_Ctn_KHR   |-> Z,
          Margin_Ctn_KHR  |-> ROUND(Minus(Z, W), 0) ]

\* the cells of the columns O to AA, from the cells they refer to
cells_from_discount(H, I, K, N, O, P, Q, T, V, X, J) ==
    cells_from_net(H, I, K, N, O, P, Q, ROUND(Minus(K, Plus(O, Q)), 2), T, V, X, J)

\* the value and formula cells written for one row of the sorted frame
row_cells(row, H, I, K, L, M, P) ==
    LET N == IF Plus(L, M).n = 0 THEN Num(0, 1) ELSE Divide(M, Plus(L, M))
    IN  cells_from_discount(H, I, K, N,
            ROUND(Times(N, K), 2), P, ROUND(Times(P, K), 2),
            cell_number(row.Mark_up), cell_number(row.Exchange_Rate),
            cell_number(row.Price_Unit_KHR),
            weight_formula(H, IF size_is_ml(row) \/ size_is_gram(row)
                                 THEN Divide(Times(H, I), Num(1000, 1))
                                 ELSE Times(H, I)))

\* the cells of a row as the workbook shows them
shown(row) ==
    row_cells(row, cell_number(row.Size), cell_int(row.Packs),
              cell_number(row.Buy_in), cell_number(row.Scheme_base),
              cell_number(row.FOC), cell_number(row.Direct_Disc_pct))

\* DataFrame.sort_values(by=["Date"], ascending=True, na_position="last") on
\* the rows of one sheet: the orders it can return, as sequences of row
\* positions.  Rows without a date follow the dated ones, in their own order;
\* dated rows ascend.  No kind is passed, so the sort is pandas' default
\* "quicksort", which is documented as not stable: rows of equal date come in
\* whatever order the installed numpy leaves them (the sources pin no
\* version), so every order of them is an outcome.
sort_values(rows) ==
    LET n == Len(rows)
        Dated(i) == rows[i].Date # None
    IN  { p \in [1..n -> 1..n] :
            /\ \A i, j \in 1..n : i # j => p[i] # p[j]
            /\ \A i, j \in 1..n : i < j =>
                 /\ ~Dated(p[i]) => ~Dated(p[j])
                 /\ (Dated(p[i]) /\ Dated(p[j])) => rows[p[i]].Date[1] <= rows[p[j]].Date[1]
                 /\ (~Dated(p[i]) /\ ~Dated(p[j])) => p[i] < p[j] }

\* the data rows written for one sheet in the order p: every row with its Id
\* cell (row_idx - 2) and its value and formula cells
sheet_cells(rows, p) ==
    [i \in 1..Len(rows) |-> [Id |-> i, row |-> rows[p[i]], shown |-> shown(rows[p[i]])]]

\* build_excel_from_sheet_dict(sheet_rows): the workbooks it can produce, each
\* a sequence of sheets in the order of the dict
RECURSIVE build_excel_from_sheet_dict(_)
build_excel_from_sheet_dict(sheet_rows) ==
    IF sheet_rows = << >> THEN {<< >>}
    ELSE LET first == Head(sheet_rows)
             rest  == build_excel_from_sheet_dict(Tail(sheet_rows))
         IN  IF first.value = << >> THEN rest
             ELSE { <<[title |-> first.key, cells |-> sheet_cells(first.value, p)]>> \o wb :
                      p \in sort_values(first.value), wb \in rest }

\* bot.py, handle_text: where the text goes, by the button shortcuts
route(text) ==
    LET lowr  == strip(lower(text))
        slash == lowr # << >> /\ Head(lowr) = "/"
    IN  IF text = << >> THEN "return"
        ELSE IF contains(lowr, <<"n","e","w"," ","c","a","l","c","u","l","a","t","i","o","n">>) THEN "start"
        ELSE IF contains(lowr, <<"r","e","s","t","a","r","t"," ","b","o","t">>) THEN "restart_command"
        ELSE IF lowr \in {<<"h","i">>, <<"h","e","l","l","o">>, <<"h","e","y">>, <<"/","h","i">>, <<"/","h","e","l","l","o">>, <<"/","h","e","y">>} THEN "hi"
        ELSE IF contains(lowr, <<"s","h","o","w"," ","p","r","o","d","u","c","t","s">>) THEN "list_products"
        ELSE IF contains(lowr, <<"h","e","l","p">>) /\ ~slash THEN "help_command"
        ELSE IF contains(lowr, <<"s","e","t","t","i","n","g","s">>) /\ ~slash THEN "settings_command"
        ELSE IF contains(lowr, <<"a","b","o","u","t">>) /\ ~slash THEN "about_command"
        ELSE IF contains(lowr, <<"s","u","m","m","a","r","y">>) /\ ~slash THEN "summary_command"
        ELSE "blocks"

\* blocks = [b for b in text.split("---") if "Date:" in b]
blocks_of(text) ==
    LET HasDate(b) == contains(b, <<"D","a","t","e",":">>)
    IN  SelectSeq(split(text, <<"-","-","-">>), HasDate)

----------------------------------------------------------------------------
(* the inputs the environment sends *)

\* the most products the registry holds, and the most blocks in one message
MaxProducts == 3

MaxBlocks == 2

\* product blocks: two Milk products of the same day, an earlier one whose
\* category is spelt in capitals, one whose date does not parse, one of the
\* sheet "Powder Detergent", and one without a Price Unit line
BlockTexts ==
    { <<"D","a","t","e",":"," ","2","4",".","1","1",".","2","0","2","5","\n","C","a","t","e","g","o","r","y",":"," ","M","i","l","k","\n","B","r","a","n","d",":"," ","A","\n","B","u","y","-","i","n",":"," ","2","2",".","5","0","$","\n","P","r","i","c","e"," ","U","n","i","t",":"," ","9","0","0","0","\n">>,
      <<"D","a","t","e",":"," ","2","4",".","1","1",".","2","0","2","5","\n","C","a","t","e","g","o","r","y",":"," ","M","i","l","k","\n","B","r","a","n","d",":"," ","B","\n","B","u","y","-","i","n",":"," ","2","8",".","6","0","$","\n","P","r","i","c","e"," ","U","n","i","t",":"," ","3","0","0","0","\n">>,
      <<"D","a","t","e",":"," ","2","3",".","1","1",".","2","0","2","5","\n","C","a","t","e","g","o","r","y",":"," ","M","I","L","K","\n","B","r","a","n","d",":"," ","C","\n","B","u","y","-","i","n",":"," ","2","2",".","5","0","$","\n","P","r","i","c","e"," ","U","n","i","t",":"," ","9","0","0","0","\n">>,
      <<"D","a","t","e",":"," ","u","n","k","n","o","w","n","\n","C","a","t","e","g","o","r","y",":"," ","M","i","l","k","\n","B","r","a","n","d",":"," ","D","\n","B","u","y","-","i","n",":"," ","2","2",".","5","0","$","\n","P","r","i","c","e"," ","U","n","i","t",":"," ","9","0","0","0","\n">>,
      <<"D","a","t","e",":"," ","2","4",".","1","1",".","2","0","2","5","\n","C","a","t","e","g","o","r","y",":"," ","D","e","t","e","r","g","e","n","t","\n","B","r","a","n","d",":"," ","E","\n","B","u","y","-","i","n",":"," ","2","1",".","6","8","$","\n","P","r","i","c","e"," ","U","n","i","t",":"," ","2","2","0","0","0","\n">>,
      <<"D","a","t","e",":"," ","2","4",".","1","1",".","2","0","2","5","\n","C","a","t","e","g","o","r","y",":"," ","M","i","l","k","\n","B","r","a","n","d",":"," ","F","\n","B","u","y","-","i","n",":"," ","2","2",".","5","0","$","\n">> }

\* "--- product N ---" before every block
RECURSIVE message_of(_)
message_of(bs) ==
    IF bs = << >> THEN << >>
    ELSE <<"-","-","-"," ","p","r","o","d","u","c","t"," ","-","-","-","\n">> \o Head(bs) \o message_of(Tail(bs))

BlockSeqs == UNION {[1..n -> BlockTexts] : n \in 1..MaxBlocks}

\* button texts and small talk that handle_text routes elsewhere
ShortcutTexts == {<<"R","e","s","t","a","r","t"," ","B","o","t"," ","(","/","r","e","s","t","a","r","t",")">>, <<"S","h","o","w"," ","p","r","o","d","u","c","t","s"," ","(","/","l","i","s","t",")">>,
                  <<"S","u","m","m","a","r","y"," ","(","/","s","u","m","m","a","r","y",")">>, <<"H","i">>, <<"t","h","a","n","k","s">>}

Texts == {message_of(bs) : bs \in BlockSeqs} \cup ShortcutTexts

\* the most products the registry holds when the priced blocks are sent
MaxPriced == 2

\* product blocks with the optional numbers: the specification's worked
\* example; a Scheme/FOC discount and a direct discount that end in half a
\* cent; sizes whose carton weight has a fraction; a size without a unit; a
\* Sell Out ($) line; a Discount(%) line; no pack count and a pack count of 0
PricedBlockTexts ==
    { <<"D","a","t","e",":"," ","2","4",".","1","1",".","2","0","2","5","\n","C","a","t","e","g","o","r","y",":"," ","M","i","l","k","\n","B","r","a","n","d",":"," ","G","\n","S","i","z","e",":"," ","1","0","0","0"," ","m","l","\n","P","a","c","k","s",":"," ","1","2","\n","B","u","y","-","i","n",":"," ","2","2",".","5","0","$","\n","S","c","h","e","m","e","(","b","a","s","e",")",":"," ","4","\n","F","O","C",":"," ","0","\n","D","i","r","e","c","t"," ","D","i","s","c",".","(","%",")",":"," ","0","\n","M","a","r","k","-","u","p",":"," ","0",".","5","0","\n","P","r","i","c","e"," ","U","n","i","t",":"," ","9","0","0","0","\n">>,
      <<"D","a","t","e",":"," ","2","4",".","1","1",".","2","0","2","5","\n","C","a","t","e","g","o","r","y",":"," ","M","i","l","k","\n","B","r","a","n","d",":"," ","H","\n","S","i","z","e",":"," ","1","0","0","0"," ","m","l","\n","P","a","c","k","s",":"," ","1","2","\n","B","u","y","-","i","n",":"," ","1","0",".","0","2","$","\n","S","c","h","e","m","e","(","b","a","s","e",")",":"," ","3","\n","F","O","C",":"," ","1","\n","P","r","i","c","e"," ","U","n","i","t",":"," ","9","0","0","0","\n">>,
      <<"D","a","t","e",":"," ","2","4",".","1","1",".","2","0","2","5","\n","C","a","t","e","g","o","r","y",":"," ","M","i","l","k","\n","B","r","a","n","d",":"," ","I","\n","S","i","z","e",":"," ","1","0","0","0"," ","m","l","\n","P","a","c","k","s",":"," ","1","2","\n","B","u","y","-","i","n",":"," ","1","0",".","5","0","$","\n","D","i","r","e","c","t"," ","D","i","s","c",".","(","%",")",":"," ","1","\n","P","r","i","c","e"," ","U","n","i","t",":"," ","9","0","0","0","\n">>,
      <<"D","a","t","e",":"," ","2","4",".","1","1",".","2","0","2","5","\n","C","a","t","e","g","o","r","y",":"," ","M","i","l","k","\n","B","r","a","n","d",":"," ","J","\n","S","i","z","e",":"," ","2","5","5"," ","m","l","\n","P","a","c","k","s",":"," ","1","0","\n","B","u","y","-","i","n",":"," ","2","2",".","5","0","$","\n","P","r","i","c","e"," ","U","n","i","t",":"," ","9","0","0","0","\n">>,
      <<"D","a","t","e",":"," ","2","4",".","1","1",".","2","0","2","5","\n","C","a","t","e","g","o","r","y",":"," ","M","i","l","k","\n","B","r","a","n","d",":"," ","K","\n","S","i","z","e",":"," ","2","0","4"," ","m","l","\n","P","a","c","k","s",":"," ","1","0","\n","B","u","y","-","i","n",":"," ","2","2",".","5","0","$","\n","P","r","i","c","e"," ","U","n","i","t",":"," ","9","0","0","0","\n">>,
      <<"D","a","t","e",":"," ","2","4",".","1","1",".","2","0","2","5","\n","C","a","t","e","g","o","r","y",":"," ","M","i","l","k","\n","B","r","a","n","d",":"," ","L","\n","S","i","z","e",":"," ","1","0","0","0","\n","P","a","c","k","s",":"," ","1","2","\n","B","u","y","-","i","n",":"," ","2","2",".","5","0","$","\n","P","r","i","c","e"," ","U","n","i","t",":"," ","9","0","0","0","\n">>,
      <<"D","a","t","e",":"," ","2","4",".","1","1",".","2","0","2","5","\n","C","a","t","e","g","o","r","y",":"," ","M","i","l","k","\n","B","r","a","n","d",":"," ","M","\n","S","i","z","e",":"," ","1","0","0","0"," ","m","l","\n","P","a","c","k","s",":"," ","1","2","\n","B","u","y","-","i","n",":"," ","2","2",".","5","0","$","\n","M","a","r","k","-","u","p",":"," ","0",".","5","0","\n","S","e","l","l"," ","O","u","t"," ","(","$",")",":"," ","2","5",".","0","0","\n","P","r","i","c","e"," ","U","n","i","t",":"," ","9","0","0","0","\n">>,
      <<"D","a","t","e",":"," ","2","4",".","1","1",".","2","0","2","5","\n","C","a","t","e","g","o","r","y",":"," ","M","i","l","k","\n","B","r","a","n","d",":"," ","N","\n","S","i","z","e",":"," ","1","0","0","0"," ","m","l","\n","P","a","c","k","s",":"," ","1","2","\n","B","u","y","-","i","n",":"," ","2","2",".","5","0","$","\n","D","i","s","c","o","u","n","t","(","%",")",":"," ","5","\n","P","r","i","c","e"," ","U","n","i","t",":"," ","9","0","0","0","\n">>,
      <<"D","a","t","e",":"," ","2","4",".","1","1",".","2","0","2","5","\n","C","a","t","e","g","o","r","y",":"," ","M","i","l","k","\n","B","r","a","n","d",":"," ","O","\n","S","i","z","e",":"," ","1","0","0","0"," ","m","l","\n","P","a","c","k","s",":"," ","0","\n","B","u","y","-","i","n",":"," ","2","2",".","5","0","$","\n","P","r","i","c","e"," ","U","n","i","t",":"," ","9","0","0","0","\n">>,
      <<"D","a","t","e",":"," ","2","4",".","1","1",".","2","0","2","5","\n","C","a","t","e","g","o","r","y",":"," ","M","i","l","k","\n","B","r","a","n","d",":"," ","A","\n","B","u","y","-","i","n",":"," ","2","2",".","5","0","$","\n","P","r","i","c","e"," ","U","n","i","t",":"," ","9","0","0","0","\n">> }

PricedTexts == {message_of(<<b>>) : b \in PricedBlockTexts}

\* messages whose segments are not all product blocks: small talk around a
\* block, no block at all, and a block whose only "Date:" is inside a line
SegmentTexts ==
    { <<"f","o","r"," ","t","h","e"," ","r","e","c","o","r","d","\n","-","-","-","\n","D","a","t","e",":"," ","2","4",".","1","1",".","2","0","2","5","\n","C","a","t","e","g","o","r","y",":"," ","M","i","l","k","\n","B","r","a","n","d",":"," ","A","\n","B","u","y","-","i","n",":"," ","2","2",".","5","0","$","\n","P","r","i","c","e"," ","U","n","i","t",":"," ","9","0","0","0","\n","-","-","-","\n","t","h","a","n","k"," ","y","o","u","\n">>,
      <<"j","u","s","t"," ","a"," ","n","o","t","e","\n","-","-","-","\n","n","o","t","h","i","n","g"," ","t","o"," ","a","d","d","\n">>,
      <<"-","-","-"," ","p","r","o","d","u","c","t"," ","-","-","-","\n","C","a","t","e","g","o","r","y",":"," ","M","i","l","k","\n","B","r","a","n","d",":"," ","P","\n","D","e","l","i","v","e","r","y"," ","D","a","t","e",":"," ","2","5",".","1","1",".","2","0","2","5","\n","B","u","y","-","i","n",":"," ","2","2",".","5","0","$","\n","P","r","i","c","e"," ","U","n","i","t",":"," ","9","0","0","0","\n">> }

\* every text sent to handle_text
AllTexts == Texts \cup PricedTexts \cup SegmentTexts

\* the decimal numeral of n >= 0
RECURSIVE numeral(_)
numeral(n) == IF n < 10 THEN <<DIGITS[n + 1]>> ELSE numeral(n \div 10) \o <<DIGITS[(n % 10) + 1]>>

IdWords == {numeral(n) : n \in 0..(MaxProducts + 1)} \cup {<<"-","1">>, <<"x">>}

SheetWords == {<<<<"M","i","l","k">>>>, <<<<"M","I","L","K">>>>, <<<<"P","o","w","d","e","r">>, <<"d","e","t","e","r","g","e","n","t">>>>, <<<<"T","o","i","l","e","t">>>>}

\* context.args of /delete
DeleteArgs == {w \o <<id>> : w \in SheetWords, id \in IdWords} \cup {<<<<"M","i","l","k">>>>}

\* context.args of /delete_sheet
DeleteSheetArgs == SheetWords \cup {<< >>}

\* Every call below has its arguments among the inputs above, so each is
\* evaluated once, here, and looked up by the handlers.
blocks_of_memo == [text \in AllTexts |-> blocks_of(text)]

AllBlocks == UNION {{blocks_of_memo[text][i] : i \in 1..Len(blocks_of_memo[text])} : text \in AllTexts}

parse_message_memo == [block \in AllBlocks |-> parse_message(block)]

\* the parsed products the registry can hold
AllParsed == {parse_message_memo[block] : block \in AllBlocks}

\* normalize_sheet(name)
normalize_sheet(name) == lower(strip(name))

\* What the handlers' loop over ALL_PRODUCTS computes for one product,
\*     calc = calculate_fields(parsed); sheet_name = choose_sheet_name(calc)
\* with what some of them go on to take of it: normalize_sheet(sheet_name)
\* and _row_from_data(calc).  calc is the outcome of calculate_fields, and
\* nothing after it is computed once it has raised.
item_in_sheet(parsed, calc, sheet_name) ==
    [ parsed     |-> parsed,
      calc       |-> calc,
      sheet_name |-> sheet_name,
      norm       |-> normalize_sheet(sheet_name),
      row        |-> IF calc.raised THEN None ELSE Some(_row_from_data(calc.value)) ]

item_of_calc(parsed, calc) ==
    item_in_sheet(parsed, calc,
                  IF calc.raised THEN << >> ELSE choose_sheet_name(calc.value))

item_of(parsed) == item_of_calc(parsed, calculate_fields(parsed))

item_memo == [parsed \in AllParsed |-> item_of(parsed)]

\* sheet_key = normalize_sheet(" ".join(words).strip()) for the sheet words
\* of a command
sheet_key_memo == [words \in SheetWords \cup {<< >>} |-> normalize_sheet(strip(join_space(words)))]

route_memo == [text \in AllTexts |-> route(text)]

----------------------------------------------------------------------------
(* bot.py *)

\* a dict is the sequence of its items [key, value] in insertion order
dict_has(d, k) == \E i \in 1..Len(d) : d[i].key = k

dict_get(d, k) == d[CHOOSE i \in 1..Len(d) : d[i].key = k].value

\* d.setdefault(k, []).append(x)
dict_append(d, k, x) ==
    IF dict_has(d, k)
    THEN [i \in 1..Len(d) |-> IF d[i].key = k
                              THEN [key |-> k, value |-> Append(d[i].value, x)]
                              ELSE d[i]]
    ELSE Append(d, [key |-> k, value |-> <<x>>])

\* items: the loop over ALL_PRODUCTS, one item per product in registry order
items(products) == [i \in 1..Len(products) |-> item_memo[products[i]]]

\* the first exception calculate_fields raises in that loop, if any
first_raise(its) ==
    LET raising == {i \in 1..Len(its) : its[i].calc.raised}
    IN  IF raising = {} THEN None
        ELSE Some(its[CHOOSE i \in raising : \A j \in raising : i <= j].calc)

RECURSIVE rebuild_rows(_, _)
rebuild_rows(its, sheet_rows) ==
    IF its = << >> THEN sheet_rows
    ELSE rebuild_rows(Tail(its),
                      dict_append(sheet_rows, Head(its).sheet_name, Head(its).row[1]))

\* _rebuild_sheet_rows() over the items of the registry: the new dict, or
\* the exception
_rebuild_sheet_rows(its) ==
    IF first_raise(its) # None THEN first_raise(its)[1]
    ELSE Return(rebuild_rows(its, << >>))

\* items -> by_sheet: (global_idx, calc) under the normalized sheet name
RECURSIVE group_by_sheet(_, _, _)
group_by_sheet(its, idx, by_sheet) ==
    IF idx >= Len(its) THEN by_sheet
    ELSE group_by_sheet(its, idx + 1,
             dict_append(by_sheet, its[idx + 1].norm,
                         [global_idx |-> idx, date |-> its[idx + 1].calc.value.date]))

\* list.sort(key=lambda t: t.date or ""): comparing a date with "" raises
\* TypeError, and a list of two or more keys of both kinds cannot be sorted
\* without such a comparison
sort_raises(rows) ==
    /\ \E i \in 1..Len(rows) : rows[i].date # None
    /\ \E i \in 1..Len(rows) : rows[i].date = None

\* x goes after every element whose key is not greater: the sort is stable
RECURSIVE insert_by_date(_, _)
insert_by_date(sorted, x) ==
    IF sorted = << >> THEN <<x>>
    ELSE LET last == sorted[Len(sorted)]
         IN  IF x.date # None /\ last.date # None /\ x.date[1] < last.date[1]
             THEN Append(insert_by_date(SubSeq(sorted, 1, Len(sorted) - 1), x), last)
             ELSE Append(sorted, x)

RECURSIVE sort_by_date(_)
sort_by_date(rows) ==
    IF rows = << >> THEN << >>
    ELSE insert_by_date(sort_by_date(SubSeq(rows, 1, Len(rows) - 1)), rows[Len(rows)])

\* by_sheet with every sheet sorted by Date, or the exception raised on the way
sorted_by_sheet(its) ==
    IF first_raise(its) # None THEN first_raise(its)[1]
    ELSE LET by_sheet == group_by_sheet(its, 0, << >>)
         IN  IF \E i \in 1..Len(by_sheet) : sort_raises(by_sheet[i].value)
             THEN Raise("TypeError", "'<' not supported between instances")
             ELSE Return([i \in 1..Len(by_sheet) |->
                     [key |-> by_sheet[i].key, value |-> sort_by_date(by_sheet[i].value)]])

\* _build_index_by_sheet(): {norm_sheet_name: [(sheet_id, global_idx), ...]}
_build_index_by_sheet(its) ==
    LET sorted == sorted_by_sheet(its)
        by_sheet == sorted.value
    IN  IF Raised(sorted) THEN sorted
        ELSE Return([i \in 1..Len(by_sheet) |->
                [key   |-> by_sheet[i].key,
                 value |-> [k \in 1..Len(by_sheet[i].value) |->
                              <<k, by_sheet[i].value[k].global_idx>>]]])

\* int(s) of an argument word: the integer, or None for ValueError
py_int(s) ==
    LET signed == s # << >> /\ Head(s) \in {"-", "+"}
        ds     == IF signed THEN Tail(s) ELSE s
    IN  IF ds # << >> /\ \A i \in 1..Len(ds) : IsDigit(ds[i])
        THEN Some((IF signed /\ Head(s) = "-" THEN -1 ELSE 1) * DigitsToInt(ds))
        ELSE None

\* list.pop(global_idx), global_idx counted from 0: the list left
pop(products, global_idx) ==
    SubSeq(products, 1, global_idx) \o SubSeq(products, global_idx + 2, Len(products))

\* sum(len(v) for v in SHEET_ROWS.values())
RECURSIVE total_rows(_)
total_rows(sheet_rows) ==
    IF sheet_rows = << >> THEN 0
    ELSE Len(Head(sheet_rows).value) + total_rows(Tail(sheet_rows))

----------------------------------------------------------------------------
(* the state: bot.py's two globals, the update being handled and what the
   handler sent back *)

VARIABLES ALL_PRODUCTS, SHEET_ROWS, update, reply

vars == <<ALL_PRODUCTS, SHEET_ROWS, update, reply>>

\* update.message.reply_text(text)
reply_text(text, body) == [kind |-> "reply_text", text |-> text, body |-> body]

\* update.message.reply_document(document, caption)
reply_document(text, wb, count, total) ==
    [kind |-> "reply_document", text |-> text,
     body |-> [document |-> wb, count |-> count, total |-> total]]

\* the handler returned without replying
no_reply == [kind |-> "return", text |-> "", body |-> None]

\* an exception left the handler; the library logs it and the user gets nothing
escaped(exc) == [kind |-> "raised", text |-> exc.type, body |-> Some(exc.msg)]

\* restart_command
restart_command ==
    /\ ALL_PRODUCTS' = << >>
    /\ SHEET_ROWS' = << >>
    /\ reply' = reply_text("Bot Restarted", Some(Len(ALL_PRODUCTS)))

\* grouped: the parsed products under their sheet name, in registry order
RECURSIVE group_products(_, _)
group_products(its, grouped) ==
    IF its = << >> THEN grouped
    ELSE group_products(Tail(its),
             dict_append(grouped, Head(its).sheet_name, Head(its).parsed))

\* what list_products sends: the sheets and, under each, the numbered products
list_reply(its) ==
    IF its = << >> THEN reply_text("No products saved yet.", None)
    ELSE IF first_raise(its) # None THEN escaped(first_raise(its)[1])
    ELSE LET grouped == group_products(its, << >>)
         IN  IF \E i \in 1..Len(grouped) : sort_raises(grouped[i].value)
             THEN escaped(Raise("TypeError", "'<' not supported between instances"))
             ELSE reply_text("Current products",
                     Some([i \in 1..Len(grouped) |->
                             [key |-> grouped[i].key,
                              value |-> sort_by_date(grouped[i].value)]]))

\* list_products
list_products ==
    /\ UNCHANGED <<ALL_PRODUCTS, SHEET_ROWS>>
    /\ reply' = list_reply(items(ALL_PRODUCTS))

\* counts[sheet] = counts.get(sheet, 0) + 1
RECURSIVE count_by_sheet(_, _)
count_by_sheet(its, counts) ==
    IF its = << >> THEN counts
    ELSE count_by_sheet(Tail(its),
             IF dict_has(counts, Head(its).sheet_name)
             THEN [i \in 1..Len(counts) |->
                     IF counts[i].key = Head(its).sheet_name
                     THEN [key |-> counts[i].key, value |-> counts[i].value + 1]
                     ELSE counts[i]]
             ELSE Append(counts, [key |-> Head(its).sheet_name, value |-> 1]))

\* what summary_command sends
summary_reply(its) ==
    IF its = << >> THEN reply_text("No products saved yet.", None)
    ELSE IF first_raise(its) # None THEN escaped(first_raise(its)[1])
    ELSE reply_text("Summary", Some(count_by_sheet(its, << >>)))

\* summary_command
summary_command ==
    /\ UNCHANGED <<ALL_PRODUCTS, SHEET_ROWS>>
    /\ reply' = summary_reply(items(ALL_PRODUCTS))

\* SHEET_ROWS = _rebuild_sheet_rows(), then the report of the new rows is
\* sent.  An exception of the rebuild leaves SHEET_ROWS as it was; the try
\* of handle_text catches it and replies "Error: ...", the delete commands
\* have no try around it.
send_report(rebuilt, caption, count, caught) ==
    IF rebuilt.raised
    THEN /\ UNCHANGED SHEET_ROWS
         /\ reply' = IF caught THEN reply_text("Error", Some(rebuilt.msg))
                     ELSE escaped(rebuilt)
    ELSE /\ SHEET_ROWS' = rebuilt.value
         /\ \E wb \in build_excel_from_sheet_dict(rebuilt.value) :
              reply' = reply_document(caption, wb, count, total_rows(rebuilt.value))

\* the registry is changed first, the rows are rebuilt from it afterwards
store(products, caption, count, caught) ==
    /\ ALL_PRODUCTS' = products
    /\ send_report(_rebuild_sheet_rows(items(products)), caption, count, caught)

\* the product blocks of a text: each is parsed and appended, then the rows
\* are rebuilt
append_blocks(blocks) ==
    IF blocks = << >> THEN reply' = no_reply /\ UNCHANGED <<ALL_PRODUCTS, SHEET_ROWS>>
    ELSE store(ALL_PRODUCTS \o [i \in 1..Len(blocks) |-> parse_message_memo[blocks[i]]],
               "Saved", Len(blocks), TRUE)

\* handle_text after the text is matched against the button shortcuts
handle_routed(target, text) ==
    IF target = "return" THEN reply' = no_reply /\ UNCHANGED <<ALL_PRODUCTS, SHEET_ROWS>>
    ELSE IF target = "start"
         THEN reply' = reply_text("Welcome", None) /\ UNCHANGED <<ALL_PRODUCTS, SHEET_ROWS>>
    ELSE IF target = "restart_command" THEN restart_command
    ELSE IF target = "hi"
         THEN reply' = reply_text("Hi!", None) /\ UNCHANGED <<ALL_PRODUCTS, SHEET_ROWS>>
    ELSE IF target = "list_products" THEN list_products
    ELSE IF target = "help_command"
         THEN reply' = reply_text("Help", None) /\ UNCHANGED <<ALL_PRODUCTS, SHEET_ROWS>>
    ELSE IF target = "settings_command"
         THEN reply' = reply_text("Settings", None) /\ UNCHANGED <<ALL_PRODUCTS, SHEET_ROWS>>
    ELSE IF target = "about_command"
         THEN reply' = reply_text("About", None) /\ UNCHANGED <<ALL_PRODUCTS, SHEET_ROWS>>
    ELSE IF target = "summary_command" THEN summary_command
    ELSE append_blocks(blocks_of_memo[text])

\* handle_text: the button shortcuts, then the product blocks
handle_text(text) == handle_routed(route_memo[text], text)

\* delete_command from the index on: by_sheet is the sorted index or the
\* exception raised while building it
delete_row(sheet_key, sheet_row_id, by_sheet) ==
    IF by_sheet.raised
    THEN reply' = escaped(by_sheet) /\ UNCHANGED <<ALL_PRODUCTS, SHEET_ROWS>>
    ELSE IF ~dict_has(by_sheet.value, sheet_key)
    THEN reply' = reply_text("Sheet not found", None) /\ UNCHANGED <<ALL_PRODUCTS, SHEET_ROWS>>
    ELSE IF sheet_row_id < 1 \/ sheet_row_id > Len(dict_get(by_sheet.value, sheet_key))
    THEN reply' = reply_text("Id not found", None) /\ UNCHANGED <<ALL_PRODUCTS, SHEET_ROWS>>
    ELSE store(pop(ALL_PRODUCTS,
                   dict_get(by_sheet.value, sheet_key)[sheet_row_id].global_idx),
               "Deleted", 1, FALSE)

\* delete_command: /delete <SheetName> <Id>
delete_command(args) ==
    IF Len(args) < 2
    THEN reply' = reply_text("Usage: /delete", None) /\ UNCHANGED <<ALL_PRODUCTS, SHEET_ROWS>>
    ELSE IF py_int(args[Len(args)]) = None
    THEN /\ reply' = reply_text("Id must be a number", None)
         /\ UNCHANGED <<ALL_PRODUCTS, SHEET_ROWS>>
    ELSE delete_row(sheet_key_memo[SubSeq(args, 1, Len(args) - 1)],
                    py_int(args[Len(args)])[1],
                    sorted_by_sheet(items(ALL_PRODUCTS)))

\* delete_sheet_command from the loop on: remaining / removed are the
\* products outside / inside the sheet, in registry order
delete_rows(its, sheet_key) ==
    LET Stays(it) == it.norm # sheet_key
        Goes(it)  == it.norm = sheet_key
        remaining == SelectSeq(its, Stays)
        removed   == SelectSeq(its, Goes)
    IN  IF first_raise(its) # None
        THEN reply' = escaped(first_raise(its)[1]) /\ UNCHANGED <<ALL_PRODUCTS, SHEET_ROWS>>
        ELSE IF removed = << >>
        THEN /\ reply' = reply_text("No products found in sheet", None)
             /\ UNCHANGED <<ALL_PRODUCTS, SHEET_ROWS>>
        ELSE store([i \in 1..Len(remaining) |-> remaining[i].parsed],
                   "Deleted sheet", Len(removed), FALSE)

\* delete_sheet_command: /delete_sheet <SheetName>
delete_sheet_command(args) ==
    IF args = << >>
    THEN /\ reply' = reply_text("Usage: /delete_sheet", None)
         /\ UNCHANGED <<ALL_PRODUCTS, SHEET_ROWS>>
    ELSE delete_rows(items(ALL_PRODUCTS), sheet_key_memo[args])

Update(handler, text, args) == [handler |-> handler, text |-> text, args |-> args]

Init ==
    /\ ALL_PRODUCTS = << >>
    /\ SHEET_ROWS = << >>
    /\ update = Update("", << >>, << >>)
    /\ reply = no_reply

OnText ==
    \E text \in Texts :
        /\ Len(ALL_PRODUCTS) + Len(blocks_of_memo[text]) <= MaxProducts
        /\ update' = Update("handle_text", text, << >>)
        /\ handle_text(text)

OnRestart == update' = Update("restart_command", << >>, << >>) /\ restart_command

OnList == update' = Update("list_products", << >>, << >>) /\ list_products

OnSummary == update' = Update("summary_command", << >>, << >>) /\ summary_command

OnDelete ==
    \E args \in DeleteArgs :
        update' = Update("delete_command", << >>, args) /\ delete_command(args)

OnDeleteSheet ==
    \E args \in DeleteSheetArgs :
        update' = Update("delete_sheet_command", << >>, args) /\ delete_sheet_command(args)

Next == OnText \/ OnRestart \/ OnList \/ OnSummary \/ OnDelete \/ OnDeleteSheet

Spec == Init /\ [][Next]_vars

\* round2 and round_weight on their own: a decimal argument is drawn, and a
\* call returns its value.  The arguments are the decimals m / 10^e of either
\* sign with a mantissa up to MaxMantissa and up to MaxScale decimals.
MaxMantissa == 1500

MaxScale == 4

Decimals == {Dec(m, e) : m \in (-MaxMantissa)..MaxMantissa, e \in 0..MaxScale}

\* the call returned value
returned(value) == [kind |-> "return", text |-> "", body |-> Some(value)]

InitRounding ==
    /\ ALL_PRODUCTS = << >>
    /\ SHEET_ROWS = << >>
    /\ \E x \in Decimals : update = Update("", << >>, <<x>>)
    /\ reply = no_reply

CallRound2 ==
    /\ update' = [update EXCEPT !.handler = "round2"]
    /\ reply' = returned(round2(update.args[1]))
    /\ UNCHANGED <<ALL_PRODUCTS, SHEET_ROWS>>

CallRoundWeight ==
    /\ update' = [update EXCEPT !.handler = "round_weight"]
    /\ reply' = returned(round_weight(update.args[1]))
    /\ UNCHANGED <<ALL_PRODUCTS, SHEET_ROWS>>

NextRounding == CallRound2 \/ CallRoundWeight

RoundingSpec == InitRounding /\ [][NextRounding]_vars

\* db.SHEET_NAMES
SHEET_NAMES ==
    << <<"O","i","l">>, <<"P","o","w","d","e","r"," ","D","e","t","e","r","g","e","n","t">>, <<"L","i","q","u","i","d"," ","D","e","t","e","r","g","e","n","t">>, <<"M","i","l","k">>, <<"D","i","s","h","w","a","s","h">>,
       <<"F","a","b","r","i","c"," ","S","o","f","t","e","n","e","r">>, <<"E","c","o"," ","D","i","s","h","w","a","s","h">>, <<"T","o","i","l","e","t">>, <<"D","a","t","a">> >>

\* choose_sheet_name on its own: a category and a sub-category are drawn, as
\* parse_message leaves them or as another caller may pass them (no value,
\* empty, any case, blanks around), and a call returns the sheet name
Categories ==
    { None, Some(<< >>), Some(<<" "," "," ">>), Some(<<"o","i","l">>), Some(<<" ","P","a","l","m"," ","O","i","l"," ">>), Some(<<"C","O","O","K","I","N","G"," ","O","I","L">>),
      Some(<<"o","l","i","v","e"," ","o","i","l">>), Some(<<"d","e","t","e","r","g","e","n","t">>), Some(<<" ","D","e","t","e","r","g","e","n","t"," ">>), Some(<<"D","E","T","E","R","G","E","N","T">>),
      Some(<<"p","o","w","d","e","r"," ","d","e","t","e","r","g","e","n","t">>), Some(<<"w","a","s","h","i","n","g"," ","p","o","w","d","e","r">>), Some(<<"L","i","q","u","i","d"," ","D","e","t","e","r","g","e","n","t">>),
      Some(<<"l","a","u","n","d","r","y"," ","l","i","q","u","i","d">>), Some(<<"M","i","l","k">>), Some(<<" "," ","f","r","e","s","h"," ","M","I","L","K">>), Some(<<"m","i","l","k"," ","p","o","w","d","e","r">>),
      Some(<<"D","i","s","h","w","a","s","h">>), Some(<<"d","i","s","h"," ","w","a","s","h">>), Some(<<"F","a","b","r","i","c"," ","S","o","f","t","e","n","e","r">>), Some(<<"s","o","f","t","e","n","e","r"," ">>),
      Some(<<"E","c","o"," ","D","i","s","h","w","a","s","h">>), Some(<<"e","c","o","-","d","i","s","h","w","a","s","h">>), Some(<<"T","o","i","l","e","t">>), Some(<<"W","C"," ","c","l","e","a","n","e","r">>),
      Some(<<"s","n","a","c","k","s">>), Some(<<"D","a","t","a">>) }

SubCategories ==
    { None, Some(<< >>), Some(<<" ">>), Some(<<"p","o","w","d","e","r">>), Some(<<"P","o","w","d","e","r">>), Some(<<" ","P","O","W","D","E","R","E","D"," ">>),
      Some(<<"l","i","q","u","i","d">>), Some(<<"L","i","q","u","i","d"," ">>), Some(<<"g","e","l">>), Some(<<"U","H","T">>) }

InitClassify ==
    /\ ALL_PRODUCTS = << >>
    /\ SHEET_ROWS = << >>
    /\ \E c \in Categories, sc \in SubCategories :
          update = Update("", << >>, [category |-> c, sub_category |-> sc])
    /\ reply = no_reply

CallChooseSheetName ==
    /\ update.handler = ""
    /\ update' = [update EXCEPT !.handler = "choose_sheet_name"]
    /\ reply' = returned(choose_sheet_name(update.args))
    /\ UNCHANGED <<ALL_PRODUCTS, SHEET_ROWS>>

NextClassify == CallChooseSheetName

ClassifySpec == InitClassify /\ [][NextClassify]_vars

\* the same handlers on messages of one priced block and on the messages
\* with other segments
OnPricedText ==
    \E text \in PricedTexts \cup SegmentTexts :
        /\ Len(ALL_PRODUCTS) < MaxPriced
        /\ update' = Update("handle_text", text, << >>)
        /\ handle_text(text)

NextPriced == OnPricedText \/ OnRestart

PricedSpec == Init /\ [][NextPriced]_vars

----------------------------------------------------------------------------
(* what the specification says of a registry, stated without the handlers'
   own grouping and sorting code *)

\* the sheet of a stored product: its category and sub-category classified
classify_memo == [parsed \in AllParsed |-> normalize_sheet(choose_sheet_name(parsed))]

SheetKey(parsed) == classify_memo[parsed]

HasRequired(parsed) == parsed.buy_in # None /\ parsed.price_unit_khr # None

\* the registry positions (from 0) of a sheet's products
Members(products, key) == {i \in 0..(Len(products) - 1) : SheetKey(products[i + 1]) = key}

\* position i comes before position j in the sheet's order: by date, a
\* missing date last, equal dates in insertion order
ComesBefore(products, i, j) ==
    LET di == products[i + 1].date
        dj == products[j + 1].date
    IN  \/ di # None /\ dj = None
        \/ di # None /\ dj # None /\ di[1] < dj[1]
        \/ i < j /\ (di = dj)

\* the sheet's positions in that order
OrderOf(products, key) ==
    LET M == Members(products, key)
    IN  [k \in 1..Cardinality(M) |->
            CHOOSE i \in M : Cardinality({j \in M : ComesBefore(products, j, i)}) = k - 1]

\* the sheet and ordinal a /delete names, when it names them
SheetArg(args) == sheet_key_memo[SubSeq(args, 1, Len(args) - 1)]

IdArg(args) == py_int(args[Len(args)])[1]

Addressed(args) == Len(args) >= 2 /\ py_int(args[Len(args)]) # None

ValidAddress(products, args) ==
    /\ Addressed(args)
    /\ IdArg(args) \in 1..Cardinality(Members(products, SheetArg(args)))

----------------------------------------------------------------------------
(* the claims *)

\* C1: no product without Buy-in or Price Unit is ever in the registry: a
\* block that lacks one is rejected before ALL_PRODUCTS is touched.
C1_NoProductWithoutRequired ==
    \A i \in 1..Len(ALL_PRODUCTS) : HasRequired(ALL_PRODUCTS[i])

\* the blocks of the text message last handled, parsed
LastBlocks ==
    IF update.handler = "handle_text" /\ route_memo[update.text] = "blocks"
    THEN [i \in 1..Len(blocks_of_memo[update.text]) |->
            parse_message_memo[blocks_of_memo[update.text][i]]]
    ELSE << >>

\* the row of a stored product is among the rows of its sheet
HasRowOf(sheet_rows, parsed) ==
    \E s \in 1..Len(sheet_rows) :
        /\ normalize_sheet(sheet_rows[s].key) = SheetKey(parsed)
        /\ \E r \in 1..Len(sheet_rows[s].value) :
             /\ sheet_rows[s].value[r].Brand = parsed.brand
             /\ sheet_rows[s].value[r].Date = parsed.date
             /\ sheet_rows[s].value[r].Category = parsed.category

\* C2: after a message of product blocks has been handled, every block of it
\* that has Buy-in and Price Unit is in the registry and has its row in the
\* rebuilt sheet rows, whatever the other blocks of the message lack.
C2_ValidBlocksAccepted ==
    \A b \in 1..Len(LastBlocks) :
        HasRequired(LastBlocks[b]) =>
            /\ \E i \in 1..Len(ALL_PRODUCTS) : ALL_PRODUCTS[i] = LastBlocks[b]
            /\ HasRowOf(SHEET_ROWS, LastBlocks[b])

\* C3: /delete with a valid address (sheet, k) removes exactly the product
\* that is k-th in the sheet's order (by date, ties in insertion order) and
\* leaves every other product, in the same relative order.
C3_DeleteRemovesKth ==
    [][ (update'.handler = "delete_command" /\ ValidAddress(ALL_PRODUCTS, update'.args)) =>
           ALL_PRODUCTS' = pop(ALL_PRODUCTS,
                               OrderOf(ALL_PRODUCTS, SheetArg(update'.args))[IdArg(update'.args)])
      ]_vars

\* the products of a sheet in the order of an index built by the code
IndexedProducts(products, index, key) ==
    IF dict_has(index, key)
    THEN [k \in 1..Len(dict_get(index, key)) |-> products[dict_get(index, key)[k][2] + 1]]
    ELSE << >>

\* the products of a sheet in the order the specification gives them
OrderedProducts(products, key) ==
    [k \in 1..Cardinality(Members(products, key)) |-> products[OrderOf(products, key)[k] + 1]]

\* s without its k-th element
Without(s, k) == SubSeq(s, 1, k - 1) \o SubSeq(s, k + 1, Len(s))

AllKeys == {classify_memo[parsed] : parsed \in AllParsed} \cup {sheet_key_memo[w] : w \in SheetWords}

\* C4: after /delete of a valid ordinal k of a sheet of N products, the index
\* rebuilt from the registry gives that sheet N-1 products with ordinals
\* 1..N-1, and every other sheet the same products under the same ordinals.
C4_DeleteKeepsOrdinalsDense ==
    [][ (update'.handler = "delete_command" /\ ValidAddress(ALL_PRODUCTS, update'.args)) =>
           LET key   == SheetArg(update'.args)
               k     == IdArg(update'.args)
               index == _build_index_by_sheet(items(ALL_PRODUCTS'))
           IN  /\ ~Raised(index)
               /\ \A s \in 1..Len(index.value) :
                    \A n \in 1..Len(index.value[s].value) : index.value[s].value[n][1] = n
               /\ IndexedProducts(ALL_PRODUCTS', index.value, key)
                    = Without(OrderedProducts(ALL_PRODUCTS, key), k)
               /\ \A other \in AllKeys \ {key} :
                    IndexedProducts(ALL_PRODUCTS', index.value, other)
                      = OrderedProducts(ALL_PRODUCTS, other)
      ]_vars

\* C5: /delete naming a sheet without products, or an ordinal outside
\* 1..size, answers not-found and changes neither global.
C5_DeleteNotFound ==
    [][ (/\ update'.handler = "delete_command"
         /\ Addressed(update'.args)
         /\ ~ValidAddress(ALL_PRODUCTS, update'.args)) =>
           /\ reply'.kind = "reply_text"
           /\ reply'.text \in {"Sheet not found", "Id not found"}
           /\ ALL_PRODUCTS' = ALL_PRODUCTS
           /\ SHEET_ROWS' = SHEET_ROWS
      ]_vars

\* C6: /delete_sheet removes exactly the products classified under the named
\* sheet (compared lowercased and trimmed), keeping the others in order; with
\* no such product it answers not-found and leaves the registry unchanged.
C6_DeleteSheetRemovesSheet ==
    [][ (update'.handler = "delete_sheet_command" /\ update'.args # << >>) =>
           LET key == sheet_key_memo[update'.args]
               Stays(parsed) == SheetKey(parsed) # key
           IN  IF Members(ALL_PRODUCTS, key) = {}
               THEN /\ reply' = reply_text("No products found in sheet", None)
                    /\ ALL_PRODUCTS' = ALL_PRODUCTS
               ELSE ALL_PRODUCTS' = SelectSeq(ALL_PRODUCTS, Stays)
      ]_vars

\* C7: the index built from any reachable registry puts every registry
\* position under exactly one sheet, and numbers each sheet 1..N.
C7_IndexPartitionsRegistry ==
    LET index == _build_index_by_sheet(items(ALL_PRODUCTS))
    IN  /\ ~Raised(index)
        /\ \A pos \in 0..(Len(ALL_PRODUCTS) - 1) :
             Cardinality({<<s, n>> \in (1..Len(index.value)) \X (1..Len(ALL_PRODUCTS)) :
                            /\ n <= Len(index.value[s].value)
                            /\ index.value[s].value[n][2] = pos}) = 1
        /\ \A s \in 1..Len(index.value) :
             \A n \in 1..Len(index.value[s].value) : index.value[s].value[n][1] = n

\* C8: in the index of any reachable registry whose products all have Buy-in
\* and Price Unit, sheets that mix dated and undated products included, each
\* sheet has its dated products first, in ascending date order, and its
\* undated products last.
C8_UndatedSortLast ==
    LET index == _build_index_by_sheet(items(ALL_PRODUCTS))
        DateAt(s, n) == ALL_PRODUCTS[index.value[s].value[n][2] + 1].date
    IN  (\A i \in 1..Len(ALL_PRODUCTS) : HasRequired(ALL_PRODUCTS[i])) =>
          /\ ~Raised(index)
          /\ \A s \in 1..Len(index.value) :
               \A m, n \in 1..Len(index.value[s].value) :
                  m < n => /\ DateAt(s, m) = None => DateAt(s, n) = None
                           /\ (DateAt(s, m) # None /\ DateAt(s, n) # None)
                                 => DateAt(s, m)[1] <= DateAt(s, n)[1]

\* the rows of a sheet sorted by Date, undated last, equal dates in the
\* order they have in rows
RECURSIVE StableRows(_)
StableRows(rows) ==
    IF rows = << >> THEN << >>
    ELSE LET init == StableRows(SubSeq(rows, 1, Len(rows) - 1))
             x    == rows[Len(rows)]
             Goes(r) == \/ r.Date # None /\ x.Date = None
                        \/ r.Date # None /\ x.Date # None /\ r.Date[1] <= x.Date[1]
                        \/ r.Date = None /\ x.Date = None
             n    == Cardinality({i \in 1..Len(init) : Goes(init[i])})
         IN  SubSeq(init, 1, n) \o <<x>> \o SubSeq(init, n + 1, Len(init))

\* C9: products of one sheet with the same date keep their insertion order
\* when the sheet is sorted, both in the delete/list index and in the rows of
\* the report.
C9_SortIsStable ==
    LET index == _build_index_by_sheet(items(ALL_PRODUCTS))
        DateAt(s, n) == ALL_PRODUCTS[index.value[s].value[n][2] + 1].date
    IN  /\ ~Raised(index) =>
              \A s \in 1..Len(index.value) :
                 \A m, n \in 1..Len(index.value[s].value) :
                    (m < n /\ DateAt(s, m) = DateAt(s, n))
                       => index.value[s].value[m][2] < index.value[s].value[n][2]
        /\ reply.kind = "reply_document" =>
              \A s \in 1..Len(reply.body.document) :
                 [n \in 1..Len(reply.body.document[s].cells) |->
                     reply.body.document[s].cells[n].row]
                   = StableRows(dict_get(SHEET_ROWS, reply.body.document[s].title))

\* C10: once a handler has returned, with or without an error, the sheet
\* rows are the regrouping of the registry: as many rows as products, each
\* product's row under its sheet.
C10_RowsFollowRegistry ==
    /\ total_rows(SHEET_ROWS) = Len(ALL_PRODUCTS)
    /\ \A i \in 1..Len(ALL_PRODUCTS) : HasRowOf(SHEET_ROWS, ALL_PRODUCTS[i])

\* C11: the Id a product is shown with is the address that deletes it: in
\* the report just sent, the row with Id n of a sheet is the row of the
\* product /delete <sheet> n removes, and /list numbers that product n under
\* the sheet.
C11_IdIsDeleteAddress ==
    reply.kind = "reply_document" =>
        LET its    == items(ALL_PRODUCTS)
            index  == _build_index_by_sheet(its)
            listed == list_reply(its)
        IN  /\ ~Raised(index)
            /\ listed.kind = "reply_text"
            /\ \A s \in 1..Len(reply.body.document) :
                 LET sheet == reply.body.document[s]
                     ids   == dict_get(index.value, normalize_sheet(sheet.title))
                 IN  \A n \in 1..Len(sheet.cells) :
                        LET addressed == ALL_PRODUCTS[ids[n][2] + 1]
                        IN  /\ sheet.cells[n].Id = ids[n][1]
                            /\ sheet.cells[n].row = item_memo[addressed].row[1]
                            /\ dict_get(listed.body[1], sheet.title)[n] = addressed


\* the rounding rule in the specification's words, on an exact value: the
\* third decimal digit decides; 0 to 5 truncates to two decimals, 6 to 9
\* moves the truncated value one hundredth away from zero
Round2Rule(a) ==
    IF a.error # "" THEN a
    ELSE LET third == ((Abs(a.n) * 1000) \div a.d) % 10
             trunc == (Abs(a.n) * 100) \div a.d
             mag   == IF third >= 6 THEN trunc + 1 ELSE trunc
         IN  Num(IF a.n >= 0 THEN mag ELSE -mag, 100)

\* the shown cells of every data row of the report just sent
ReportCells ==
    IF reply.kind # "reply_document" THEN {}
    ELSE UNION { {reply.body.document[s].cells[n] : n \in 1..Len(reply.body.document[s].cells)} :
                 s \in 1..Len(reply.body.document) }

\* C12: every money cell of the report that is a formula shows the value of
\* its pricing formula rounded by the round2 rule: the discount, the direct
\* discount, the net buy-in, the price per 100 units and the sell-out in
\* dollars; the worked example shows 22.50, 23.00 and 0.19.
C12_MoneyCellsUseRound2 ==
    \A cell \in ReportCells :
        LET c == cell.shown
        IN  /\ c.Discount_usd = Round2Rule(Times(c.Buy_in, c.Discount_pct))
            /\ c.Direct_Disc_usd = Round2Rule(Times(c.Buy_in, c.Direct_Disc_pct))
            /\ c.Net_Buy_in = Round2Rule(Minus(c.Buy_in, Plus(c.Discount_usd, c.Direct_Disc_usd)))
            /\ Times(c.Size, c.Packs).n > 0 =>
                  c.Price_100_unit =
                     Round2Rule(Divide(c.Net_Buy_in, Divide(Times(c.Size, c.Packs), Num(100, 1))))
            /\ c.Sell_Out_usd = Round2Rule(Plus(c.Net_Buy_in, c.Mark_up))
            /\ cell.row.Brand = Some(<<"G">>) =>
                  /\ c.Net_Buy_in = Num(2250, 100)
                  /\ c.Sell_Out_usd = Num(2300, 100)
                  /\ c.Price_100_unit = Num(19, 100)


\* the carton-weight rule in the specification's words, on a value >= 0: the
\* first decimal digit decides; 0 leaves the value as it is, 1 to 5 gives the
\* integer part, 6 to 9 the integer part plus one
WeightRule(a) ==
    LET first == ((a.n * 10) \div a.d) % 10
        whole == a.n \div a.d
    IN  IF first = 0 THEN a
        ELSE IF first >= 6 THEN Num(whole + 1, 1)
        ELSE Num(whole, 1)

\* C13: for a product with a size and a pack count, the Weight per Ctn cell
\* of the report shows the carton-weight rule applied to size * packs / 1000.
C13_WeightCellFollowsRule ==
    \A cell \in ReportCells :
        (cell.row.size_raw # None /\ cell.row.Packs # None)
            => cell.shown.Weight_per_Ctn =
                  WeightRule(Divide(Times(cell.shown.Size, cell.shown.Packs), Num(1000, 1)))


\* a decimal as an exact number
Exact(x) == Num(x.m, Pow10(x.e))

\* C14: round2(x), for a decimal x of either sign, looks at the third
\* decimal digit only: 0 to 5 gives x truncated toward zero to two decimals,
\* 6 to 9 gives that value moved one hundredth away from zero.
C14_Round2ThirdDigit ==
    update.handler = "round2" => Exact(reply.body[1]) = Round2Rule(Exact(update.args[1]))

\* C15: round_weight(x), for a decimal x >= 0, returns x when the first
\* digit after the point is 0, the integer part when it is 1 to 5, and the
\* integer part plus one when it is 6 to 9.
C15_RoundWeightFirstDigit ==
    (update.handler = "round_weight" /\ update.args[1].m >= 0)
        => Exact(reply.body[1]) = WeightRule(Exact(update.args[1]))


\* the classifier's rules in the specification's order: the categories of a
\* rule, the sub-categories it asks for (none when it asks for no
\* sub-category), and the sheet; the empty sub-category counts as "powder"
\* and as "liquid"
SheetRules ==
    << [categories |-> {<<"c","o","o","k","i","n","g"," ","o","i","l">>, <<"o","i","l">>, <<"p","a","l","m"," ","o","i","l">>, <<"v","e","g","e","t","a","b","l","e"," ","o","i","l">>,
                        <<"c","o","c","o","n","u","t"," ","o","i","l">>, <<"s","u","n","f","l","o","w","e","r"," ","o","i","l">>},
        subs |-> {}, sheet |-> <<"O","i","l">>],
       [categories |-> {<<"d","e","t","e","r","g","e","n","t">>, <<"p","o","w","d","e","r"," ","d","e","t","e","r","g","e","n","t">>, <<"w","a","s","h","i","n","g"," ","p","o","w","d","e","r">>},
        subs |-> {<<"p","o","w","d","e","r">>, <<"p","o","w","d","e","r","e","d">>, << >>}, sheet |-> <<"P","o","w","d","e","r"," ","D","e","t","e","r","g","e","n","t">>],
       [categories |-> {<<"d","e","t","e","r","g","e","n","t">>, <<"l","i","q","u","i","d"," ","d","e","t","e","r","g","e","n","t">>, <<"l","a","u","n","d","r","y"," ","l","i","q","u","i","d">>},
        subs |-> {<<"l","i","q","u","i","d">>, << >>}, sheet |-> <<"L","i","q","u","i","d"," ","D","e","t","e","r","g","e","n","t">>],
       [categories |-> {<<"m","i","l","k">>, <<"d","a","i","r","y"," ","m","i","l","k">>, <<"f","r","e","s","h"," ","m","i","l","k">>, <<"e","v","a","p","o","r","a","t","e","d"," ","m","i","l","k">>,
                        <<"c","o","n","d","e","n","s","e","d"," ","m","i","l","k">>},
        subs |-> {}, sheet |-> <<"M","i","l","k">>],
       [categories |-> {<<"d","i","s","h","w","a","s","h">>, <<"d","i","s","h"," ","w","a","s","h">>, <<"d","i","s","h","w","a","s","h","i","n","g"," ","l","i","q","u","i","d">>, <<"d","i","s","h","w","a","s","h","i","n","g">>},
        subs |-> {}, sheet |-> <<"D","i","s","h","w","a","s","h">>],
       [categories |-> {<<"f","a","b","r","i","c"," ","s","o","f","t","e","n","e","r">>, <<"s","o","f","t","e","n","e","r">>, <<"f","a","b","r","i","c"," ","s","o","f","t","n","e","r">>},
        subs |-> {}, sheet |-> <<"F","a","b","r","i","c"," ","S","o","f","t","e","n","e","r">>],
       [categories |-> {<<"e","c","o"," ","d","i","s","h","w","a","s","h">>, <<"e","c","o"," ","d","i","s","h","w","a","s","h","i","n","g">>, <<"e","c","o","-","d","i","s","h","w","a","s","h">>},
        subs |-> {}, sheet |-> <<"E","c","o"," ","D","i","s","h","w","a","s","h">>],
       [categories |-> {<<"t","o","i","l","e","t">>, <<"t","o","i","l","e","t"," ","c","l","e","a","n","e","r">>, <<"t","o","i","l","e","t"," ","b","o","w","l"," ","c","l","e","a","n","e","r">>,
                        <<"w","c"," ","c","l","e","a","n","e","r">>, <<"t","o","i","l","e","t"," ","l","i","q","u","i","d">>},
        subs |-> {}, sheet |-> <<"T","o","i","l","e","t">>] >>

\* the rules a lowercased, trimmed pair matches
Matching(category, sub_cat) ==
    {i \in 1..Len(SheetRules) :
        /\ category \in SheetRules[i].categories
        /\ SheetRules[i].subs = {} \/ sub_cat \in SheetRules[i].subs}

\* C16: choose_sheet_name is total and first-match-wins: for every category
\* and sub-category, absent or empty or in any case and with blanks around,
\* it returns one of the nine sheet names, that of the first rule the
\* lowercased, trimmed pair matches; "detergent" with an empty sub-category
\* gives "Powder Detergent", and a pair that matches no rule gives "Data".
C16_ClassifierTotalFirstMatch ==
    update.handler = "choose_sheet_name" =>
        LET category == lower(strip(OrEmpty(update.args.category)))
            sub_cat  == lower(strip(OrEmpty(update.args.sub_category)))
            M        == Matching(category, sub_cat)
            sheet    == reply.body[1]
        IN  /\ Len(SHEET_NAMES) = 9
            /\ \E i \in 1..Len(SHEET_NAMES) : SHEET_NAMES[i] = sheet
            /\ M # {} => sheet = SheetRules[CHOOSE i \in M : \A j \in M : i <= j].sheet
            /\ M = {} => sheet = <<"D","a","t","a">>
            /\ (category = <<"d","e","t","e","r","g","e","n","t">> /\ sub_cat = << >>) => sheet = <<"P","o","w","d","e","r"," ","D","e","t","e","r","g","e","n","t">>

\* "detergent" in capitals with blanks around and no sub-category has been
\* classified, as "Powder Detergent"
C16_Witness ==
    /\ update.handler = "choose_sheet_name"
    /\ update.args.category = Some(<<" ","D","e","t","e","r","g","e","n","t"," ">>)
    /\ update.args.sub_category = None
    /\ reply.body[1] = <<"P","o","w","d","e","r"," ","D","e","t","e","r","g","e","n","t">>


\* the stored products a row of the report was made from
ProductsOf(cell) ==
    {ALL_PRODUCTS[i] : i \in {j \in 1..Len(ALL_PRODUCTS) :
                                 item_memo[ALL_PRODUCTS[j]].row = Some(cell.row)}}

\* C17: a product whose block has a "Sell Out ($)" line shows that value as
\* its sell-out in the report; only a product without one shows net buy-in
\* plus mark-up.
C17_ExplicitSellOutKept ==
    \A cell \in ReportCells :
        \A parsed \in ProductsOf(cell) :
            cell.shown.Sell_Out_usd =
                IF parsed.sell_out_usd # None THEN Exact(parsed.sell_out_usd[1])
                ELSE Plus(cell.shown.Net_Buy_in, cell.shown.Mark_up)


\* C18: the discount percentage shown for a product is
\* 100 * foc / (scheme_base + foc) when both are given and their sum is not
\* 0; otherwise it is the Discount(%) the block supplies, and 0 only when the
\* block supplies none.
C18_DiscountPctSource ==
    \A cell \in ReportCells :
        \A parsed \in ProductsOf(cell) :
            LET base == parsed.scheme_base
                foc  == parsed.foc
                sum  == Plus(cell_number(base), cell_number(foc))
            IN  Times(cell.shown.Discount_pct, Num(100, 1)) =
                    IF base # None /\ foc # None /\ sum.n # 0
                    THEN Divide(Times(Num(100, 1), cell_number(foc)), sum)
                    ELSE IF parsed.discount_pct # None THEN Exact(parsed.discount_pct[1])
                    ELSE Num(0, 1)


\* the cells of a row that are formulas
DerivedCells(c) ==
    { c.Weight_per_Ctn, c.Discount_pct, c.Discount_usd, c.Direct_Disc_usd, c.Net_Buy_in,
      c.Price_100_unit, c.Sell_Out_usd, c.Sell_Out_KHR, c.Margin_Unit_KHR,
      c.Price_Ctn_KHR, c.Margin_Ctn_KHR }

\* an optional number of the row is absent or 0
LacksOptional(cell) ==
    \E v \in { cell.shown.Packs, cell.shown.Size, cell_number(cell.row.Scheme_base),
               cell_number(cell.row.FOC), cell.shown.Direct_Disc_pct, cell.shown.Mark_up } :
        v.n = 0

\* C19: in the report, no formula cell of a product that has Buy-in and
\* Price Unit but lacks optional numbers (absent or 0 Packs, Size,
\* Scheme(base), FOC, Direct Disc.(%), Mark-up) shows an error; Margin/Unit
\* shows none when the pack count is absent or 0.
C19_NoErrorCells ==
    \A cell \in ReportCells :
        LacksOptional(cell) => \A v \in DerivedCells(cell.shown) : v.error = ""


\* a line of the segment begins with the label "Date:"
BeginsWithDateLine(segment) ==
    \E i \in 1..Len(splitlines(segment)) : StartsAt(lstrip(splitlines(segment)[i]), 1, <<"D","a","t","e",":">>)

\* C20: of the segments of a message, those with a line that begins with
\* "Date:" become products, in their order, and no other: a message handled
\* as product blocks appends the parsed candidates to the registry, and with
\* no candidate it changes nothing and sends nothing, an error included.
C20_DateLineDecides ==
    [][ (update'.handler = "handle_text" /\ route_memo[update'.text] = "blocks") =>
           LET candidates == SelectSeq(split(update'.text, <<"-","-","-">>), BeginsWithDateLine)
           IN  /\ Len(ALL_PRODUCTS') = Len(ALL_PRODUCTS) + Len(candidates)
               /\ \A i \in 1..Len(candidates) :
                     ALL_PRODUCTS'[Len(ALL_PRODUCTS) + i] = parse_message_memo[candidates[i]]
               /\ candidates = << >> => (reply' = no_reply /\ SHEET_ROWS' = SHEET_ROWS)
      ]_vars

----------------------------------------------------------------------------
(* the handlers as coroutines of one event loop.  In AsyncSpec, update is the
   sequence of the coroutines the Application has created and that have not
   returned, each with its position and its local variables; reply is the
   last reply a handler has sent.  A coroutine keeps the loop until it
   reaches an await; the others run only then. *)

\* the most coroutines in flight and the most products of the registry
MaxTasks == 2

MaxAsyncProducts == 2

\* a Milk product, an earlier one, and one without a Price Unit line
AsyncTexts ==
    { <<"-","-","-"," ","p","r","o","d","u","c","t"," ","-","-","-","\n","D","a","t","e",":"," ","2","4",".","1","1",".","2","0","2","5","\n","C","a","t","e","g","o","r","y",":"," ","M","i","l","k","\n","B","r","a","n","d",":"," ","A","\n","B","u","y","-","i","n",":"," ","2","2",".","5","0","$","\n","P","r","i","c","e"," ","U","n","i","t",":"," ","9","0","0","0","\n">>,
      <<"-","-","-"," ","p","r","o","d","u","c","t"," ","-","-","-","\n","D","a","t","e",":"," ","2","3",".","1","1",".","2","0","2","5","\n","C","a","t","e","g","o","r","y",":"," ","M","I","L","K","\n","B","r","a","n","d",":"," ","C","\n","B","u","y","-","i","n",":"," ","2","2",".","5","0","$","\n","P","r","i","c","e"," ","U","n","i","t",":"," ","9","0","0","0","\n">>,
      <<"-","-","-"," ","p","r","o","d","u","c","t"," ","-","-","-","\n","D","a","t","e",":"," ","2","4",".","1","1",".","2","0","2","5","\n","C","a","t","e","g","o","r","y",":"," ","M","i","l","k","\n","B","r","a","n","d",":"," ","F","\n","B","u","y","-","i","n",":"," ","2","2",".","5","0","$","\n">> }

AsyncDeleteArgs == {<<<<"M","i","l","k">>, <<"1">>>>, <<<<"M","i","l","k">>, <<"2">>>>}

AsyncDeleteSheetArgs == {<<<<"M","i","l","k">>>>}

\* a coroutine: the update it handles, where it stands, and its locals: the
\* registry it read, the registry it wrote and the count of its caption
coroutine(handler, text, args) ==
    [handler |-> handler, text |-> text, args |-> args, pc |-> "created",
     resolved |-> << >>, written |-> << >>, count |-> 0]

AsyncUpdates ==
    {coroutine("handle_text", text, << >>) : text \in AsyncTexts}
    \cup {coroutine("delete_command", << >>, args) : args \in AsyncDeleteArgs}
    \cup {coroutine("delete_sheet_command", << >>, args) : args \in AsyncDeleteSheetArgs}
    \cup {coroutine("restart_command", << >>, << >>), coroutine("list_products", << >>, << >>)}

\* the positions at which a handler does not hold the loop: before it is
\* first run, and in the await of its reply.  Every await of the handlers is
\* the sending of a reply, the last statement of its path; none lies between
\* the read of ALL_PRODUCTS, its mutation and the rebuild.
await_points_everywhere(handler) == {"created", "resolved", "mutated", "sent"}

await_points(handler) == {"created", "sent"}

\* coroutine i may run: no other coroutine is between two awaits
may_run(i) ==
    \A j \in 1..Len(update) : j # i => update[j].pc \in await_points(update[j].handler)

\* coroutine i goes on to pc with these locals
moved(i, pc, resolved, written, count) ==
    update' = [update EXCEPT ![i] = [@ EXCEPT !.pc = pc, !.resolved = resolved,
                                              !.written = written, !.count = count]]

\* coroutine i has sent its reply (or its exception has left it): it waits
\* in the await, its locals are not used again
sends(i, message) == reply' = message /\ moved(i, "sent", << >>, << >>, 0)

InitAsync ==
    /\ ALL_PRODUCTS = << >>
    /\ SHEET_ROWS = << >>
    /\ update = << >>
    /\ reply = no_reply

\* the Application creates the handler's coroutine for an update
CreateTask ==
    \E u \in AsyncUpdates :
        /\ Len(update) < MaxTasks
        /\ u.handler = "handle_text" =>
             Len(ALL_PRODUCTS)
               + Cardinality({j \in 1..Len(update) : update[j].handler = "handle_text"
                                                     /\ update[j].pc = "created"})
               < MaxAsyncProducts
        /\ update' = Append(update, u)
        /\ UNCHANGED <<ALL_PRODUCTS, SHEET_ROWS, reply>>

\* delete_command and delete_sheet_command read ALL_PRODUCTS: the loop over
\* enumerate(ALL_PRODUCTS) that builds the index, the loop that splits the
\* registry into remaining and removed
ResolveStep ==
    \E i \in 1..Len(update) :
        /\ may_run(i)
        /\ update[i].pc = "created"
        /\ update[i].handler \in {"delete_command", "delete_sheet_command"}
        /\ moved(i, "resolved", ALL_PRODUCTS, << >>, 0)
        /\ UNCHANGED <<ALL_PRODUCTS, SHEET_ROWS, reply>>

\* delete_command from its index to ALL_PRODUCTS.pop(global_idx)
DeleteStep ==
    \E i \in 1..Len(update) :
        LET args == update[i].args
            sheet_key == sheet_key_memo[SubSeq(args, 1, Len(args) - 1)]
            sheet_row_id == py_int(args[Len(args)])[1]
            by_sheet == sorted_by_sheet(items(update[i].resolved))
        IN  /\ may_run(i)
            /\ update[i].pc = "resolved"
            /\ update[i].handler = "delete_command"
            /\ IF by_sheet.raised
               THEN sends(i, escaped(by_sheet)) /\ UNCHANGED <<ALL_PRODUCTS, SHEET_ROWS>>
               ELSE IF ~dict_has(by_sheet.value, sheet_key)
               THEN /\ sends(i, reply_text("Sheet not found", None))
                    /\ UNCHANGED <<ALL_PRODUCTS, SHEET_ROWS>>
               ELSE IF sheet_row_id < 1 \/ sheet_row_id > Len(dict_get(by_sheet.value, sheet_key))
               THEN /\ sends(i, reply_text("Id not found", None))
                    /\ UNCHANGED <<ALL_PRODUCTS, SHEET_ROWS>>
               ELSE /\ ALL_PRODUCTS' =
                         pop(ALL_PRODUCTS,
                             dict_get(by_sheet.value, sheet_key)[sheet_row_id].global_idx)
                    /\ moved(i, "mutated", update[i].resolved, ALL_PRODUCTS', 1)
                    /\ UNCHANGED <<SHEET_ROWS, reply>>

\* delete_sheet_command from its loop to ALL_PRODUCTS = remaining
DeleteSheetStep ==
    \E i \in 1..Len(update) :
        LET its == items(update[i].resolved)
            sheet_key == sheet_key_memo[update[i].args]
            Stays(it) == it.norm # sheet_key
            Goes(it)  == it.norm = sheet_key
            remaining == SelectSeq(its, Stays)
            removed   == SelectSeq(its, Goes)
        IN  /\ may_run(i)
            /\ update[i].pc = "resolved"
            /\ update[i].handler = "delete_sheet_command"
            /\ IF first_raise(its) # None
               THEN /\ sends(i, escaped(first_raise(its)[1]))
                    /\ UNCHANGED <<ALL_PRODUCTS, SHEET_ROWS>>
               ELSE IF removed = << >>
               THEN /\ sends(i, reply_text("No products found in sheet", None))
                    /\ UNCHANGED <<ALL_PRODUCTS, SHEET_ROWS>>
               ELSE /\ ALL_PRODUCTS' = [k \in 1..Len(remaining) |-> remaining[k].parsed]
                    /\ moved(i, "mutated", update[i].resolved, ALL_PRODUCTS', Len(removed))
                    /\ UNCHANGED <<SHEET_ROWS, reply>>

\* handle_text to the end of its loop of ALL_PRODUCTS.append(parsed)
AppendStep ==
    \E i \in 1..Len(update) :
        LET blocks == blocks_of_memo[update[i].text]
        IN  /\ may_run(i)
            /\ update[i].pc = "created"
            /\ update[i].handler = "handle_text"
            /\ ALL_PRODUCTS' =
                 ALL_PRODUCTS \o [k \in 1..Len(blocks) |-> parse_message_memo[blocks[k]]]
            /\ moved(i, "mutated", << >>, ALL_PRODUCTS', Len(blocks))
            /\ UNCHANGED <<SHEET_ROWS, reply>>

\* SHEET_ROWS = _rebuild_sheet_rows() and the report, to the await of the
\* reply: the rebuild reads the registry as it is now
RebuildStep ==
    \E i \in 1..Len(update) :
        /\ may_run(i)
        /\ update[i].pc = "mutated"
        /\ send_report(_rebuild_sheet_rows(items(ALL_PRODUCTS)),
                       IF update[i].handler = "handle_text" THEN "Saved"
                       ELSE IF update[i].handler = "delete_command" THEN "Deleted"
                       ELSE "Deleted sheet",
                       update[i].count, update[i].handler = "handle_text")
        /\ moved(i, "sent", << >>, << >>, 0)
        /\ UNCHANGED ALL_PRODUCTS

\* restart_command to the await of its reply
RestartStep ==
    \E i \in 1..Len(update) :
        /\ may_run(i)
        /\ update[i].pc = "created"
        /\ update[i].handler = "restart_command"
        /\ restart_command
        /\ moved(i, "sent", << >>, << >>, 0)

\* list_products to the await of its reply
ListStep ==
    \E i \in 1..Len(update) :
        /\ may_run(i)
        /\ update[i].pc = "created"
        /\ update[i].handler = "list_products"
        /\ list_products
        /\ moved(i, "sent", << >>, << >>, 0)

\* the reply is delivered, the handler returns
ReturnStep ==
    \E i \in 1..Len(update) :
        /\ may_run(i)
        /\ update[i].pc = "sent"
        /\ update' = SubSeq(update, 1, i - 1) \o SubSeq(update, i + 1, Len(update))
        /\ UNCHANGED <<ALL_PRODUCTS, SHEET_ROWS, reply>>

NextAsync ==
    \/ CreateTask \/ ResolveStep \/ DeleteStep \/ DeleteSheetStep \/ AppendStep
    \/ RebuildStep \/ RestartStep \/ ListStep \/ ReturnStep

AsyncSpec == InitAsync /\ [][NextAsync]_vars

\* coroutine i takes this step
steps(i) == Len(update') = Len(update) /\ update'[i] # update[i]

\* the product /delete addresses in the registry it read: the one at the
\* ordinal of its sheet in the index of that registry, as a place (from 0)
addressed(task) ==
    LET args == task.args
        by_sheet == sorted_by_sheet(items(task.resolved)).value
        rows == dict_get(by_sheet, sheet_key_memo[SubSeq(args, 1, Len(args) - 1)])
    IN  rows[py_int(args[Len(args)])[1]].global_idx

\* C21: registry mutations and rebuilds are serialized.  However the
\* handlers' coroutines interleave at their awaits, no handler runs between
\* another handler's read of ALL_PRODUCTS and its mutation, nor between its
\* mutation and its rebuild of SHEET_ROWS: when a handler goes on from its
\* read, the registry is the one it read, and the product a /delete removes
\* is the one that held the ordinal in it; when a handler goes on from its
\* mutation, the registry is the one it wrote, and the SHEET_ROWS it assigns
\* are rebuilt from it.
C21_MutationsSerialized ==
    [][ \A i \in 1..Len(update) :
          steps(i) =>
            /\ update[i].pc = "resolved" =>
                 /\ update[i].resolved = ALL_PRODUCTS
                 /\ (update[i].handler = "delete_command" /\ update'[i].pc = "mutated") =>
                      ALL_PRODUCTS' = pop(update[i].resolved, addressed(update[i]))
            /\ update[i].pc = "mutated" =>
                 /\ update[i].written = ALL_PRODUCTS
                 /\ SHEET_ROWS' # SHEET_ROWS =>
                      SHEET_ROWS' = _rebuild_sheet_rows(items(update[i].written)).value
      ]_vars

\* a /delete that read a registry of two products has removed one and is
\* about to rebuild, while a handler that ran before it is still in the
\* await of its reply
C21_Witness ==
    \E i, j \in 1..Len(update) :
        /\ i < j
        /\ update[i].pc = "sent"
        /\ update[j].handler = "delete_command"
        /\ update[j].pc = "mutated"
        /\ Len(update[j].resolved) = 2
        /\ update[j].written = pop(update[j].resolved, addressed(update[j]))

----------------------------------------------------------------------------
(* the operations that read the registry, with what they leave in it.  The
   registry holds dicts and every loop hands calculate_fields the stored
   dict itself, so what the function does to its argument is what happens
   to the stored product. *)

\* a function that wrote its result into the dict it was given
argument_updated(data) ==
    IF calculate_fields(data).raised THEN data ELSE calculate_fields(data).value

\* the dict handed to calculate_fields, after the call: result = dict(data)
\* is a copy and result.update(...) writes to the copy
argument_after(data) == data

\* ALL_PRODUCTS after "for parsed in ALL_PRODUCTS: calc = calculate_fields(parsed)":
\* the loop ends at the first call that raises
after_loop(products) ==
    LET its == items(products)
        raising == {i \in 1..Len(its) : its[i].calc.raised}
        last == IF raising = {} THEN Len(its)
                ELSE CHOOSE i \in raising : \A j \in raising : i <= j
    IN  [i \in 1..Len(products) |->
            IF i <= last THEN argument_after(products[i]) ELSE products[i]]

\* list_products; the lists it sorts are its own
ReadList ==
    /\ update' = Update("list_products", << >>, << >>)
    /\ reply' = list_reply(items(ALL_PRODUCTS))
    /\ ALL_PRODUCTS' = after_loop(ALL_PRODUCTS)
    /\ UNCHANGED SHEET_ROWS

\* summary_command
ReadSummary ==
    /\ update' = Update("summary_command", << >>, << >>)
    /\ reply' = summary_reply(items(ALL_PRODUCTS))
    /\ ALL_PRODUCTS' = after_loop(ALL_PRODUCTS)
    /\ UNCHANGED SHEET_ROWS

\* a call of _build_index_by_sheet()
ReadIndex ==
    /\ update' = Update("_build_index_by_sheet", << >>, << >>)
    /\ reply' = returned(_build_index_by_sheet(items(ALL_PRODUCTS)))
    /\ ALL_PRODUCTS' = after_loop(ALL_PRODUCTS)
    /\ UNCHANGED SHEET_ROWS

\* a call of _rebuild_sheet_rows() whose result is not assigned
ReadRebuild ==
    /\ update' = Update("_rebuild_sheet_rows", << >>, << >>)
    /\ reply' = returned(_rebuild_sheet_rows(items(ALL_PRODUCTS)))
    /\ ALL_PRODUCTS' = after_loop(ALL_PRODUCTS)
    /\ UNCHANGED SHEET_ROWS

NextFrame == OnPricedText \/ OnRestart \/ ReadList \/ ReadSummary \/ ReadIndex \/ ReadRebuild

FrameSpec == Init /\ [][NextFrame]_vars

ReadOnly == {"list_products", "summary_command", "_build_index_by_sheet", "_rebuild_sheet_rows"}

\* C22: the operations that only read the registry leave it as it was:
\* /list, /summary, the index build and _rebuild_sheet_rows change neither
\* the length, nor the order, nor a field of a stored product, nor
\* SHEET_ROWS; so the rows of a rebuild are those of a rebuild of the
\* registry it leaves, however often it is repeated.
C22_ReadsLeaveRegistry ==
    [][ update'.handler \in ReadOnly =>
          /\ ALL_PRODUCTS' = ALL_PRODUCTS
          /\ SHEET_ROWS' = SHEET_ROWS
          /\ update'.handler = "_rebuild_sheet_rows" =>
               reply' = returned(_rebuild_sheet_rows(items(ALL_PRODUCTS')))
      ]_vars

\* rows have been rebuilt from a registry with a product whose Direct
\* Disc.(%) is 1: the row has 0.01, the stored product still 1
C22_Witness ==
    /\ update.handler = "_rebuild_sheet_rows"
    /\ \E i \in 1..Len(ALL_PRODUCTS) : ALL_PRODUCTS[i].direct_disc_pct = Some(Dec(1, 0))
    /\ ~reply.body[1].raised
    /\ \E s \in 1..Len(reply.body[1].value) :
         \E k \in 1..Len(reply.body[1].value[s].value) :
            reply.body[1].value[s].value[k].Direct_Disc_pct = Some(Dec(1, 2))

====
